---- MODULE Spec2Model ----
(***************************************************************************)
(* password-manager-crypt: the CryptoService contract as implemented by    *)
(* NodeCryptoService (src/services/node-crypto.ts) and WebCryptoService    *)
(* (src/services/web-crypto.ts), with the error taxonomy of src/errors.ts. *)
(*                                                                         *)
(* Byte arrays are sequences of 0..255.  Strings the code inspects (error  *)
(* messages) are sequences of one-character strings; passwords are         *)
(* sequences of Unicode code points.  The platform primitives (AES-GCM,    *)
(* PBKDF2, the random source) are not implemented by the repository: they  *)
(* are modelled by an inverse pair with a keyed tag, a deterministic       *)
(* mixing function and a drawn seed.  What a primitive throws when the     *)
(* host makes it fail is an arbitrary object chosen by the environment.    *)
(***************************************************************************)
EXTENDS Integers, Sequences, FiniteSets, TLC

VARIABLES
    last,     \* the most recent call: operation, backend, inputs, outcome, primitive calls
    wire,     \* the EncryptedData record the caller currently holds, with its provenance
    derived   \* the successful deriveKey call that preceded the most recent one

vars == <<last, wire, derived>>

-----------------------------------------------------------------------------
(* Program constants *)

DEFAULT_IV_LENGTH == 12
DEFAULT_SALT_LENGTH == 32
AUTH_TAG_LENGTH == 16
TAG_LENGTH_BITS == 128
AES_KEY_LENGTH == 32

(* Bounds of the model *)

MaxDataLen == 2        \* longest plaintext the caller encrypts
MaxIterations == 2     \* largest PBKDF2 iteration count the caller asks for

MaxTasks == 2          \* most calls in flight together on one instance
MaxLength == 3         \* longest salt or IV a caller asks generateSalt/generateIV for
Backends == {"node", "web"}

-----------------------------------------------------------------------------
(* Bytes *)

Byte == 0..255

RECURSIVE Sum(_)
Sum(s) == IF s = <<>> THEN 0 ELSE Head(s) + Sum(Tail(s))

\* sum of s[i] * i: sensitive to the position of a byte
RECURSIVE WeightedSum(_, _)
WeightedSum(s, i) == IF s = <<>> THEN 0 ELSE Head(s) * i + WeightedSum(Tail(s), i + 1)

Zeros(n) == [i \in 1..n |-> 0]

\* Uint8Array.prototype.slice(start, end) with 0-based, possibly negative, indices
JsSliceIndex(len, k) == IF k < 0 THEN (IF len + k < 0 THEN 0 ELSE len + k)
                        ELSE (IF k > len THEN len ELSE k)

JsSlice(a, start, end) ==
    LET from == JsSliceIndex(Len(a), start)
        to   == JsSliceIndex(Len(a), end)
    IN IF to <= from THEN <<>> ELSE [i \in 1..(to - from) |-> a[from + i]]

\* slice(start) with the end omitted
JsSliceFrom(a, start) == JsSlice(a, start, Len(a))

\* target.set(source, offset) on a typed array; offset is 0-based
TypedArraySet(target, source, offset) ==
    [i \in 1..Len(target) |->
        IF i > offset /\ i <= offset + Len(source) THEN source[i - offset] ELSE target[i]]

\* TextEncoder.encode / Node's UTF-8 encoding of a string of code points
Utf8Char(cp) ==
    IF cp < 128 THEN <<cp>>
    ELSE IF cp < 2048 THEN <<192 + (cp \div 64), 128 + (cp % 64)>>
    ELSE <<224 + (cp \div 4096), 128 + ((cp \div 64) % 64), 128 + (cp % 64)>>

RECURSIVE Utf8Encode(_)
Utf8Encode(str) == IF str = <<>> THEN <<>> ELSE Utf8Char(Head(str)) \o Utf8Encode(Tail(str))

-----------------------------------------------------------------------------
(* Text: error messages as sequences of characters *)

UpperCase == <<"A", "B", "C", "D", "E", "F", "G", "H", "I", "J", "K", "L", "M",
               "N", "O", "P", "Q", "R", "S", "T", "U", "V", "W", "X", "Y", "Z">>
LowerCase == <<"a", "b", "c", "d", "e", "f", "g", "h", "i", "j", "k", "l", "m",
               "n", "o", "p", "q", "r", "s", "t", "u", "v", "w", "x", "y", "z">>

ToLowerChar(c) ==
    IF \E i \in 1..Len(UpperCase) : UpperCase[i] = c
    THEN LowerCase[CHOOSE i \in 1..Len(UpperCase) : UpperCase[i] = c]
    ELSE c

\* String.prototype.toLowerCase
ToLowerCase(s) == [i \in 1..Len(s) |-> ToLowerChar(s[i])]

\* String.prototype.includes
Includes(s, pat) ==
    \E k \in 0..(Len(s) - Len(pat)) : \A j \in 1..Len(pat) : s[k + j] = pat[j]

MsgEmptyPassword == \* "Password cannot be empty"
    <<"P", "a", "s", "s", "w", "o", "r", "d", " ", "c", "a", "n", "n", "o", "t", " ", "b", "e", " ", "e", "m", "p", "t", "y">>
MsgEmptySalt == \* "Salt cannot be empty"
    <<"S", "a", "l", "t", " ", "c", "a", "n", "n", "o", "t", " ", "b", "e", " ", "e", "m", "p", "t", "y">>
MsgEmptyData == \* "Data cannot be empty"
    <<"D", "a", "t", "a", " ", "c", "a", "n", "n", "o", "t", " ", "b", "e", " ", "e", "m", "p", "t", "y">>
MsgKeyLength == \* "Key must be 32 bytes for AES-256"
    <<"K", "e", "y", " ", "m", "u", "s", "t", " ", "b", "e", " ", "3", "2", " ", "b", "y", "t", "e", "s", " ", "f", "o", "r", " ", "A", "E", "S", "-", "2", "5", "6">>
MsgEmptyEncrypted == \* "Encrypted data cannot be empty"
    <<"E", "n", "c", "r", "y", "p", "t", "e", "d", " ", "d", "a", "t", "a", " ", "c", "a", "n", "n", "o", "t", " ", "b", "e", " ", "e", "m", "p", "t", "y">>
MsgIvLength == \* "IV must be 12 bytes for AES-256-GCM"
    <<"I", "V", " ", "m", "u", "s", "t", " ", "b", "e", " ", "1", "2", " ", "b", "y", "t", "e", "s", " ", "f", "o", "r", " ", "A", "E", "S", "-", "2", "5", "6", "-", "G", "C", "M">>
MsgAuthTagLength == \* "Auth tag must be 16 bytes for AES-256-GCM"
    <<"A", "u", "t", "h", " ", "t", "a", "g", " ", "m", "u", "s", "t", " ", "b", "e", " ", "1", "6", " ", "b", "y", "t", "e", "s", " ", "f", "o", "r", " ", "A", "E", "S", "-", "2", "5", "6", "-", "G", "C", "M">>
MsgOperationFailed == \* "Cryptographic operation failed"
    <<"C", "r", "y", "p", "t", "o", "g", "r", "a", "p", "h", "i", "c", " ", "o", "p", "e", "r", "a", "t", "i", "o", "n", " ", "f", "a", "i", "l", "e", "d">>
MsgUnknownError == \* "Unknown cryptographic error"
    <<"U", "n", "k", "n", "o", "w", "n", " ", "c", "r", "y", "p", "t", "o", "g", "r", "a", "p", "h", "i", "c", " ", "e", "r", "r", "o", "r">>

\* messages of the objects the platform throws
MsgInvalidKeyProvided == \* "Invalid key provided"
    <<"I", "n", "v", "a", "l", "i", "d", " ", "k", "e", "y", " ", "p", "r", "o", "v", "i", "d", "e", "d">>
MsgInvalidDataFormat == \* "Invalid data format"
    <<"I", "n", "v", "a", "l", "i", "d", " ", "d", "a", "t", "a", " ", "f", "o", "r", "m", "a", "t">>
MsgTampered == \* "Tampered data"
    <<"T", "a", "m", "p", "e", "r", "e", "d", " ", "d", "a", "t", "a">>
MsgUnableToAuth == \* "unable to authenticate data"
    <<"u", "n", "a", "b", "l", "e", " ", "t", "o", " ", "a", "u", "t", "h", "e", "n", "t", "i", "c", "a", "t", "e", " ", "d", "a", "t", "a">>
MsgSecretLeak == \* "SECRET in buffer"
    <<"S", "E", "C", "R", "E", "T", " ", "i", "n", " ", "b", "u", "f", "f", "e", "r">>
MsgOutOfRange == \* "out of range"
    <<"o", "u", "t", " ", "o", "f", " ", "r", "a", "n", "g", "e">>

-----------------------------------------------------------------------------
(* Error taxonomy (src/errors.ts) *)

\* a thrown JavaScript value: isError is `instanceof Error`, impl is
\* `instanceof CryptoErrorImpl`; code and category exist on CryptoErrorImpl only
Thrown(isError, name, message) ==
    [isError |-> isError, name |-> name, message |-> message,
     code |-> "", category |-> "", impl |-> FALSE]

NoError == Thrown(FALSE, "", <<>>)

CryptoErrorImpl(message, code, category) ==
    [isError |-> TRUE, name |-> "CryptoError", message |-> message,
     code |-> code, category |-> category, impl |-> TRUE]

createCryptoError(category, code, message) == CryptoErrorImpl(message, code, category)

\* faulty variant: the message is matched without being lower-cased first
sanitizeErrorMessageCaseSensitive(error) ==
    IF error.isError
    THEN LET message == error.message
         IN IF \/ Includes(message, <<"k", "e", "y">>)
               \/ Includes(message, <<"p", "a", "s", "s", "w", "o", "r", "d">>)
               \/ Includes(message, <<"s", "e", "c", "r", "e", "t">>)
            THEN MsgOperationFailed
            ELSE error.message
    ELSE MsgUnknownError

sanitizeErrorMessage(error) ==
    IF error.isError
    THEN LET message == ToLowerCase(error.message)
         IN IF \/ Includes(message, <<"k", "e", "y">>)
               \/ Includes(message, <<"p", "a", "s", "s", "w", "o", "r", "d">>)
               \/ Includes(message, <<"s", "e", "c", "r", "e", "t">>)
            THEN MsgOperationFailed
            ELSE error.message
    ELSE MsgUnknownError

\* the test every catch block of both backends applies before re-throwing
IsCryptoErrorByName(error) == error.isError /\ error.name = "CryptoError"

-----------------------------------------------------------------------------
(* Results of a try block and of a call *)

NoBytes == <<>>
NoEnc == [data |-> <<>>, iv |-> <<>>, salt |-> <<>>, authTag |-> <<>>]

\* one call into the platform library, as recorded during an operation
Call(fn, key, iv, data) ==
    [data |-> data, iv |-> iv, fn |-> fn, key |-> key, size |-> Len(data)]

\* a request for n random bytes and the bytes the source returned
RandomCall(fn, n, out) == [data |-> out, iv |-> <<>>, fn |-> fn, key |-> <<>>, size |-> n]

\* the way a block of code ends: normally with a value, or by throwing
\* cause remembers where a throw started: "validation" (an input check of the
\* service), "host" (the environment made a platform call fail), "argument" (the
\* platform refused an argument), "auth" (AES-GCM authentication failed)
Return(has, bytes, enc, trace) ==
    [error |-> NoError, has |-> has, bytes |-> bytes, enc |-> enc, trace |-> trace,
     threw |-> FALSE, cause |-> "none"]
Raise(error, trace, cause) ==
    [error |-> error, has |-> "error", bytes |-> NoBytes, enc |-> NoEnc, trace |-> trace,
     threw |-> TRUE, cause |-> cause]

\* what the caller observes.  An `async` method delivers a throw as a rejection of
\* the promise it returns; a plain method that throws does so out of the call itself.
Settle(isAsync, r) ==
    [error |-> r.error, has |-> r.has, bytes |-> r.bytes, enc |-> r.enc,
     trace |-> r.trace, cause |-> r.cause,
     kind  |-> IF ~r.threw THEN "resolved" ELSE IF isAsync THEN "rejected" ELSE "thrown"]

NoOutcome == Settle(TRUE, Return("none", NoBytes, NoEnc, <<>>))

-----------------------------------------------------------------------------
(* The environment: what the host does to one call.  env.at names the first      *)
(* platform call of the operation that the host makes fail ("none": no failure)  *)
(* and env.obj is the object that call throws; env.seed is what the random       *)
(* source returns.  After the first failure the try block is left, so one        *)
(* failure per call is the general case.                                         *)

ThrownObjects ==
    { Thrown(TRUE, "Error", MsgInvalidDataFormat),      \* new Error('Invalid data format')
      Thrown(TRUE, "TypeError", MsgInvalidKeyProvided), \* a message naming the key
      Thrown(TRUE, "CryptoError", MsgSecretLeak),       \* a foreign error that calls itself CryptoError
      Thrown(FALSE, "", <<>>) }                         \* a thrown non-Error value

Seeds == {3, 250}

Env(at, obj, seed) == [at |-> at, obj |-> obj, seed |-> seed]

Fails(env, fn) == env.at = fn

-----------------------------------------------------------------------------
(* Platform primitives (not code of the repository) *)

\* the k-th draw of n bytes from the random source in one call
RandomDraw(n, seed, k) == [i \in 1..n |-> (seed + 64 * k + i) % 256]

\* AES-256-GCM as an inverse pair with a keyed tag over (key, iv, ciphertext)
KeyStream(keySum, ivSum, i) == (keySum + 3 * ivSum + 7 * i) % 256

GcmEncryptBytes(key, iv, plain) ==
    LET ks == Sum(key)  is == Sum(iv)
    IN [i \in 1..Len(plain) |-> (plain[i] + KeyStream(ks, is, i)) % 256]

GcmDecryptBytes(key, iv, cipher) ==
    LET ks == Sum(key)  is == Sum(iv)
    IN [i \in 1..Len(cipher) |-> (cipher[i] + 256 - KeyStream(ks, is, i)) % 256]

GcmTag(key, iv, cipher, tagLen) ==
    LET base == 5 * Sum(key) + 11 * Sum(iv) + WeightedSum(cipher, 1) + Len(cipher)
    IN [j \in 1..tagLen |-> (base + 13 * j) % 256]

\* the errors the platforms raise on an authentication failure
NodeAuthError == Thrown(TRUE, "Error", MsgUnableToAuth)
WebAuthError  == Thrown(TRUE, "OperationError", MsgTampered)
\* and on an argument they refuse
PlatformKeyError   == Thrown(TRUE, "RangeError", MsgInvalidKeyProvided)
PlatformRangeError == Thrown(TRUE, "RangeError", MsgOutOfRange)

\* crypto.subtle.encrypt({name: 'AES-GCM', iv, tagLength}, key, data): ciphertext
\* followed by the tag
SubtleEncrypt(key, iv, tagLengthBits, data) ==
    LET cipher == GcmEncryptBytes(key, iv, data)
    IN cipher \o GcmTag(key, iv, cipher, tagLengthBits \div 8)

\* crypto.subtle.decrypt: the input is ciphertext followed by the tag
SubtleDecryptAuthentic(key, iv, tagLengthBits, combined) ==
    LET tagLen == tagLengthBits \div 8
        cipher == JsSlice(combined, 0, Len(combined) - tagLen)
    IN /\ Len(combined) >= tagLen
       /\ JsSliceFrom(combined, Len(combined) - tagLen) = GcmTag(key, iv, cipher, tagLen)

SubtleDecryptBytes(key, iv, tagLengthBits, combined) ==
    GcmDecryptBytes(key, iv, JsSlice(combined, 0, Len(combined) - (tagLengthBits \div 8)))

\* PBKDF2 over (password bytes, salt, iterations, hash) producing dkLen bytes
HashBits(name) == IF name \in {"sha512", "SHA-512"} THEN 512 ELSE 256

Pbkdf2Bytes(passwordBytes, salt, iterations, hashName, dkLen) ==
    LET base == 3 * WeightedSum(passwordBytes, 1) + 5 * WeightedSum(salt, 1)
                + 7 * iterations + HashBits(hashName)
    IN [i \in 1..dkLen |-> (base + 17 * i) % 256]

-----------------------------------------------------------------------------
(* Random bytes: generateSalt and generateIV of both backends.  `what` is the    *)
(* draw the host may fail ("salt" or "iv"), k the number of earlier draws.       *)

\* crypto.randomBytes(length)
NodeRandomBytes(length, env, what, k) ==
    LET salt == RandomDraw(length, env.seed, k)
    IN IF length < 0
       THEN Raise(PlatformRangeError, <<RandomCall("randomBytes", length, <<>>)>>, "argument")
       ELSE IF Fails(env, what)
       THEN Raise(env.obj, <<RandomCall("randomBytes", length, <<>>)>>, "host")
       ELSE Return("bytes", salt, NoEnc, <<RandomCall("randomBytes", length, salt)>>)

\* new Uint8Array(length) followed by crypto.getRandomValues(array)
WebRandomValues(length, env, what, k) ==
    IF length < 0 THEN Raise(PlatformRangeError, <<>>, "argument")
    ELSE LET salt == RandomDraw(length, env.seed, k)
         IN IF Fails(env, what)
            THEN Raise(env.obj, <<RandomCall("getRandomValues", length, <<>>)>>, "host")
            ELSE Return("bytes", salt, NoEnc, <<RandomCall("getRandomValues", length, salt)>>)

GenerateCatch(r, code) ==
    IF ~r.threw THEN r
    ELSE Raise(createCryptoError("initialization", code, sanitizeErrorMessage(r.error)),
               r.trace, r.cause)

NodeGenerateSalt(length, env, k) ==
    GenerateCatch(NodeRandomBytes(length, env, "salt", k), "SALT_GENERATION_FAILED")

\* faulty variant: the IV failure is reported with the code of the salt
NodeGenerateIVSaltCode(length, env, k) ==
    GenerateCatch(NodeRandomBytes(length, env, "iv", k), "SALT_GENERATION_FAILED")

NodeGenerateIV(length, env, k) ==
    GenerateCatch(NodeRandomBytes(length, env, "iv", k), "IV_GENERATION_FAILED")

WebGenerateSalt(length, env, k) ==
    GenerateCatch(WebRandomValues(length, env, "salt", k), "SALT_GENERATION_FAILED")

WebGenerateIV(length, env, k) ==
    GenerateCatch(WebRandomValues(length, env, "iv", k), "IV_GENERATION_FAILED")

-----------------------------------------------------------------------------
(* encrypt *)

NodeEncryptValidation(data, key) ==
    IF Len(data) = 0
    THEN Raise(createCryptoError("validation", "EMPTY_DATA", MsgEmptyData), <<>>, "validation")
    ELSE IF Len(key) # AES_KEY_LENGTH
    THEN Raise(createCryptoError("validation", "INVALID_KEY_LENGTH", MsgKeyLength), <<>>, "validation")
    ELSE Return("none", NoBytes, NoEnc, <<>>)

WebEncryptValidation(data, key) ==
    IF Len(data) = 0
    THEN Raise(createCryptoError("validation", "EMPTY_DATA", MsgEmptyData), <<>>, "validation")
    ELSE IF Len(key) # AES_KEY_LENGTH
    THEN Raise(createCryptoError("validation", "INVALID_KEY_LENGTH", MsgKeyLength), <<>>, "validation")
    ELSE Return("none", NoBytes, NoEnc, <<>>)

\* the catch block of encrypt, the same text in both backends
NodeEncryptCatch(r) ==
    IF ~r.threw THEN r
    ELSE IF IsCryptoErrorByName(r.error) THEN r
    ELSE Raise(createCryptoError("encryption", "ENCRYPTION_FAILED",
                                 sanitizeErrorMessage(r.error)), r.trace, r.cause)

\* faulty variant: every throw, the validation errors included, is wrapped
WebEncryptCatchWrapAll(r) ==
    IF ~r.threw THEN r
    ELSE Raise(createCryptoError("encryption", "ENCRYPTION_FAILED",
                                 sanitizeErrorMessage(r.error)), r.trace, r.cause)

WebEncryptCatch(r) ==
    IF ~r.threw THEN r
    ELSE IF IsCryptoErrorByName(r.error) THEN r
    ELSE Raise(createCryptoError("encryption", "ENCRYPTION_FAILED",
                                 sanitizeErrorMessage(r.error)), r.trace, r.cause)

\* faulty variant: the returned salt is a copy of the IV
NodeCipherStepsSaltFromIv(data, key, iv, salt, env, t0) ==
    LET t1 == Append(t0, Call("createCipheriv", key, iv, <<>>))
        t2 == Append(t1, Call("update", key, iv, data))
        t3 == Append(t2, Call("final", key, iv, <<>>))
        t4 == Append(t3, Call("getAuthTag", key, iv, <<>>))
        encrypted == GcmEncryptBytes(key, iv, data) \o <<>>
        authTag   == GcmTag(key, iv, encrypted, AUTH_TAG_LENGTH)
    IN IF Fails(env, "createCipheriv") THEN Raise(env.obj, t1, "host")
       ELSE IF Len(key) # AES_KEY_LENGTH THEN Raise(PlatformKeyError, t1, "argument")
       ELSE IF Fails(env, "update") THEN Raise(env.obj, t2, "host")
       ELSE IF Fails(env, "final") THEN Raise(env.obj, t3, "host")
       ELSE IF Fails(env, "getAuthTag") THEN Raise(env.obj, t4, "host")
       ELSE Return("enc", NoBytes,
                   [data |-> encrypted, iv |-> iv, salt |-> iv, authTag |-> authTag], t4)

\* createCipheriv, update, final, getAuthTag on NodeCryptoService's cipher
NodeCipherSteps(data, key, iv, salt, env, t0) ==
    LET t1 == Append(t0, Call("createCipheriv", key, iv, <<>>))
        t2 == Append(t1, Call("update", key, iv, data))
        t3 == Append(t2, Call("final", key, iv, <<>>))
        t4 == Append(t3, Call("getAuthTag", key, iv, <<>>))
        encrypted == GcmEncryptBytes(key, iv, data) \o <<>>
        authTag   == GcmTag(key, iv, encrypted, AUTH_TAG_LENGTH)
    IN IF Fails(env, "createCipheriv") THEN Raise(env.obj, t1, "host")
       ELSE IF Len(key) # AES_KEY_LENGTH THEN Raise(PlatformKeyError, t1, "argument")
       ELSE IF Fails(env, "update") THEN Raise(env.obj, t2, "host")
       ELSE IF Fails(env, "final") THEN Raise(env.obj, t3, "host")
       ELSE IF Fails(env, "getAuthTag") THEN Raise(env.obj, t4, "host")
       ELSE Return("enc", NoBytes,
                   [data |-> encrypted, iv |-> iv, salt |-> salt, authTag |-> authTag], t4)

\* faulty variant: the IV is drawn before the inputs are checked
NodeEncryptTryIvFirst(data, key, env) ==
    LET iv == NodeGenerateIV(DEFAULT_IV_LENGTH, env, 0) IN
    IF iv.threw THEN iv ELSE
    LET v == NodeEncryptValidation(data, key) IN
    IF v.threw THEN Raise(v.error, iv.trace, v.cause) ELSE
    LET salt == NodeGenerateSalt(DEFAULT_SALT_LENGTH, env, 1) IN
    IF salt.threw THEN Raise(salt.error, iv.trace \o salt.trace, salt.cause) ELSE
    NodeCipherSteps(data, key, iv.bytes, salt.bytes, env, iv.trace \o salt.trace)

NodeEncryptTry(data, key, env) ==
    LET v == NodeEncryptValidation(data, key) IN
    IF v.threw THEN v ELSE
    LET iv == NodeGenerateIV(DEFAULT_IV_LENGTH, env, 0) IN
    IF iv.threw THEN iv ELSE
    LET salt == NodeGenerateSalt(DEFAULT_SALT_LENGTH, env, 1) IN
    IF salt.threw THEN Raise(salt.error, iv.trace \o salt.trace, salt.cause) ELSE
    NodeCipherSteps(data, key, iv.bytes, salt.bytes, env, iv.trace \o salt.trace)

\* NodeCryptoService.encrypt is not declared async
NodeEncrypt(data, key, env) == Settle(FALSE, NodeEncryptCatch(NodeEncryptTry(data, key, env)))

\* faulty variant: the combined output is split at the IV length
WebCipherStepsSplitAtIv(data, key, iv, salt, env, t0) ==
    LET t1 == Append(t0, Call("importKey", key, <<>>, <<>>))
        t2 == Append(t1, Call("encrypt", key, iv, data))
        encryptedArray == SubtleEncrypt(key, iv, TAG_LENGTH_BITS, data)
        encryptedData  == JsSlice(encryptedArray, 0, -DEFAULT_IV_LENGTH)
        authTag        == JsSliceFrom(encryptedArray, -DEFAULT_IV_LENGTH)
    IN IF Fails(env, "importKey") THEN Raise(env.obj, t1, "host")
       ELSE IF Len(key) # AES_KEY_LENGTH THEN Raise(PlatformKeyError, t1, "argument")
       ELSE IF Fails(env, "encrypt") THEN Raise(env.obj, t2, "host")
       ELSE Return("enc", NoBytes,
                   [data |-> encryptedData, iv |-> iv, salt |-> salt, authTag |-> authTag],
                   t2)

\* faulty variant: the tag is copied out but not cut off the data
WebCipherStepsTagKept(data, key, iv, salt, env, t0) ==
    LET t1 == Append(t0, Call("importKey", key, <<>>, <<>>))
        t2 == Append(t1, Call("encrypt", key, iv, data))
        encryptedArray == SubtleEncrypt(key, iv, TAG_LENGTH_BITS, data)
        encryptedData  == JsSliceFrom(encryptedArray, 0)
        authTag        == JsSliceFrom(encryptedArray, -AUTH_TAG_LENGTH)
    IN IF Fails(env, "importKey") THEN Raise(env.obj, t1, "host")
       ELSE IF Len(key) # AES_KEY_LENGTH THEN Raise(PlatformKeyError, t1, "argument")
       ELSE IF Fails(env, "encrypt") THEN Raise(env.obj, t2, "host")
       ELSE Return("enc", NoBytes,
                   [data |-> encryptedData, iv |-> iv, salt |-> salt, authTag |-> authTag],
                   t2)

\* importKey, subtle.encrypt and the split of the combined output
WebCipherSteps(data, key, iv, salt, env, t0) ==
    LET t1 == Append(t0, Call("importKey", key, <<>>, <<>>))
        t2 == Append(t1, Call("encrypt", key, iv, data))
        encryptedArray == SubtleEncrypt(key, iv, TAG_LENGTH_BITS, data)
        encryptedData  == JsSlice(encryptedArray, 0, -AUTH_TAG_LENGTH)
        authTag        == JsSliceFrom(encryptedArray, -AUTH_TAG_LENGTH)
    IN IF Fails(env, "importKey") THEN Raise(env.obj, t1, "host")
       ELSE IF Len(key) # AES_KEY_LENGTH THEN Raise(PlatformKeyError, t1, "argument")
       ELSE IF Fails(env, "encrypt") THEN Raise(env.obj, t2, "host")
       ELSE Return("enc", NoBytes,
                   [data |-> encryptedData, iv |-> iv, salt |-> salt, authTag |-> authTag],
                   t2)

\* faulty variant: a fixed IV is used instead of the one drawn
WebEncryptTryFixedIv(data, key, env) ==
    LET v == WebEncryptValidation(data, key) IN
    IF v.threw THEN v ELSE
    LET iv == WebGenerateIV(DEFAULT_IV_LENGTH, env, 0) IN
    IF iv.threw THEN iv ELSE
    LET salt == WebGenerateSalt(DEFAULT_SALT_LENGTH, env, 1) IN
    IF salt.threw THEN Raise(salt.error, iv.trace \o salt.trace, salt.cause) ELSE
    WebCipherSteps(data, key, Zeros(DEFAULT_IV_LENGTH), salt.bytes, env,
                   iv.trace \o salt.trace)

WebEncryptTry(data, key, env) ==
    LET v == WebEncryptValidation(data, key) IN
    IF v.threw THEN v ELSE
    LET iv == WebGenerateIV(DEFAULT_IV_LENGTH, env, 0) IN
    IF iv.threw THEN iv ELSE
    LET salt == WebGenerateSalt(DEFAULT_SALT_LENGTH, env, 1) IN
    IF salt.threw THEN Raise(salt.error, iv.trace \o salt.trace, salt.cause) ELSE
    WebCipherSteps(data, key, iv.bytes, salt.bytes, env, iv.trace \o salt.trace)

WebEncrypt(data, key, env) == Settle(TRUE, WebEncryptCatch(WebEncryptTry(data, key, env)))

-----------------------------------------------------------------------------
(* decrypt *)

\* faulty variant: the authTag length is not checked
NodeDecryptValidationNoTagCheck(encryptedData, key) ==
    IF Len(key) # AES_KEY_LENGTH
    THEN Raise(createCryptoError("validation", "INVALID_KEY_LENGTH", MsgKeyLength), <<>>, "validation")
    ELSE IF Len(encryptedData.data) = 0
    THEN Raise(createCryptoError("validation", "EMPTY_ENCRYPTED_DATA", MsgEmptyEncrypted),
               <<>>, "validation")
    ELSE IF Len(encryptedData.iv) # DEFAULT_IV_LENGTH
    THEN Raise(createCryptoError("validation", "INVALID_IV_LENGTH", MsgIvLength), <<>>, "validation")
    ELSE Return("none", NoBytes, NoEnc, <<>>)

NodeDecryptValidation(encryptedData, key) ==
    IF Len(key) # AES_KEY_LENGTH
    THEN Raise(createCryptoError("validation", "INVALID_KEY_LENGTH", MsgKeyLength), <<>>, "validation")
    ELSE IF Len(encryptedData.data) = 0
    THEN Raise(createCryptoError("validation", "EMPTY_ENCRYPTED_DATA", MsgEmptyEncrypted),
               <<>>, "validation")
    ELSE IF Len(encryptedData.iv) # DEFAULT_IV_LENGTH
    THEN Raise(createCryptoError("validation", "INVALID_IV_LENGTH", MsgIvLength), <<>>, "validation")
    ELSE IF Len(encryptedData.authTag) # AUTH_TAG_LENGTH
    THEN Raise(createCryptoError("validation", "INVALID_AUTH_TAG_LENGTH", MsgAuthTagLength),
               <<>>, "validation")
    ELSE Return("none", NoBytes, NoEnc, <<>>)

\* faulty variant: the iv is checked before the data
WebDecryptValidationIvFirst(encryptedData, key) ==
    IF Len(key) # AES_KEY_LENGTH
    THEN Raise(createCryptoError("validation", "INVALID_KEY_LENGTH", MsgKeyLength), <<>>, "validation")
    ELSE IF Len(encryptedData.iv) # DEFAULT_IV_LENGTH
    THEN Raise(createCryptoError("validation", "INVALID_IV_LENGTH", MsgIvLength), <<>>, "validation")
    ELSE IF Len(encryptedData.data) = 0
    THEN Raise(createCryptoError("validation", "EMPTY_ENCRYPTED_DATA", MsgEmptyEncrypted),
               <<>>, "validation")
    ELSE IF Len(encryptedData.authTag) # AUTH_TAG_LENGTH
    THEN Raise(createCryptoError("validation", "INVALID_AUTH_TAG_LENGTH", MsgAuthTagLength),
               <<>>, "validation")
    ELSE Return("none", NoBytes, NoEnc, <<>>)

WebDecryptValidation(encryptedData, key) ==
    IF Len(key) # AES_KEY_LENGTH
    THEN Raise(createCryptoError("validation", "INVALID_KEY_LENGTH", MsgKeyLength), <<>>, "validation")
    ELSE IF Len(encryptedData.data) = 0
    THEN Raise(createCryptoError("validation", "EMPTY_ENCRYPTED_DATA", MsgEmptyEncrypted),
               <<>>, "validation")
    ELSE IF Len(encryptedData.iv) # DEFAULT_IV_LENGTH
    THEN Raise(createCryptoError("validation", "INVALID_IV_LENGTH", MsgIvLength), <<>>, "validation")
    ELSE IF Len(encryptedData.authTag) # AUTH_TAG_LENGTH
    THEN Raise(createCryptoError("validation", "INVALID_AUTH_TAG_LENGTH", MsgAuthTagLength),
               <<>>, "validation")
    ELSE Return("none", NoBytes, NoEnc, <<>>)

\* the catch block of decrypt, the same text in both backends
NodeDecryptCatch(r) ==
    IF ~r.threw THEN r
    ELSE IF IsCryptoErrorByName(r.error) THEN r
    ELSE [Return("null", NoBytes, NoEnc, r.trace) EXCEPT !.cause = r.cause]

\* faulty variant: failures of the primitive are reported as an error instead of null
WebDecryptCatchWrapped(r) ==
    IF ~r.threw THEN r
    ELSE IF IsCryptoErrorByName(r.error) THEN r
    ELSE Raise(createCryptoError("decryption", "DECRYPTION_FAILED",
                                 sanitizeErrorMessage(r.error)), r.trace, r.cause)

WebDecryptCatch(r) ==
    IF ~r.threw THEN r
    ELSE IF IsCryptoErrorByName(r.error) THEN r
    ELSE [Return("null", NoBytes, NoEnc, r.trace) EXCEPT !.cause = r.cause]

\* createDecipheriv, setAuthTag, update, final on NodeCryptoService's decipher;
\* final() is where the platform verifies the tag
NodeDecipherSteps(encryptedData, key, env) ==
    LET t1 == <<Call("createDecipheriv", key, encryptedData.iv, <<>>)>>
        t2 == Append(t1, Call("setAuthTag", key, encryptedData.iv, encryptedData.authTag))
        t3 == Append(t2, Call("update", key, encryptedData.iv, encryptedData.data))
        t4 == Append(t3, Call("final", key, encryptedData.iv, <<>>))
        decrypted == GcmDecryptBytes(key, encryptedData.iv, encryptedData.data) \o <<>>
    IN IF Fails(env, "createDecipheriv") THEN Raise(env.obj, t1, "host")
       ELSE IF Len(key) # AES_KEY_LENGTH THEN Raise(PlatformKeyError, t1, "argument")
       ELSE IF Fails(env, "setAuthTag") THEN Raise(env.obj, t2, "host")
       ELSE IF Fails(env, "update") THEN Raise(env.obj, t3, "host")
       ELSE IF Fails(env, "final") THEN Raise(env.obj, t4, "host")
       ELSE IF encryptedData.authTag #
               GcmTag(key, encryptedData.iv, encryptedData.data, Len(encryptedData.authTag))
            THEN Raise(NodeAuthError, t4, "auth")
       ELSE Return("bytes", decrypted, NoEnc, t4)

\* faulty variant: an empty salt is refused
NodeDecryptTrySaltChecked(encryptedData, key, env) ==
    LET v == NodeDecryptValidation(encryptedData, key) IN
    IF v.threw THEN v
    ELSE IF Len(encryptedData.salt) = 0
    THEN Raise(createCryptoError("validation", "EMPTY_SALT", MsgEmptySalt), <<>>, "validation")
    ELSE NodeDecipherSteps(encryptedData, key, env)

NodeDecryptTry(encryptedData, key, env) ==
    LET v == NodeDecryptValidation(encryptedData, key) IN
    IF v.threw THEN v ELSE NodeDecipherSteps(encryptedData, key, env)

\* NodeCryptoService.decrypt is not declared async
NodeDecrypt(encryptedData, key, env) ==
    Settle(FALSE, NodeDecryptCatch(NodeDecryptTry(encryptedData, key, env)))

\* faulty variant: the tag is placed before the data
WebDecipherStepsTagFirst(encryptedData, key, env) ==
    LET combinedData ==
            TypedArraySet(
                TypedArraySet(Zeros(Len(encryptedData.data) + Len(encryptedData.authTag)),
                              encryptedData.authTag, 0),
                encryptedData.data, Len(encryptedData.authTag))
        t1 == <<Call("importKey", key, <<>>, <<>>)>>
        t2 == Append(t1, Call("decrypt", key, encryptedData.iv, combinedData))
    IN IF Fails(env, "importKey") THEN Raise(env.obj, t1, "host")
       ELSE IF Len(key) # AES_KEY_LENGTH THEN Raise(PlatformKeyError, t1, "argument")
       ELSE IF Fails(env, "decrypt") THEN Raise(env.obj, t2, "host")
       ELSE IF ~SubtleDecryptAuthentic(key, encryptedData.iv, TAG_LENGTH_BITS, combinedData)
            THEN Raise(WebAuthError, t2, "auth")
       ELSE Return("bytes",
                   SubtleDecryptBytes(key, encryptedData.iv, TAG_LENGTH_BITS, combinedData),
                   NoEnc, t2)

\* importKey, the concatenation data || authTag, and subtle.decrypt
WebDecipherSteps(encryptedData, key, env) ==
    LET combinedData ==
            TypedArraySet(
                TypedArraySet(Zeros(Len(encryptedData.data) + Len(encryptedData.authTag)),
                              encryptedData.data, 0),
                encryptedData.authTag, Len(encryptedData.data))
        t1 == <<Call("importKey", key, <<>>, <<>>)>>
        t2 == Append(t1, Call("decrypt", key, encryptedData.iv, combinedData))
    IN IF Fails(env, "importKey") THEN Raise(env.obj, t1, "host")
       ELSE IF Len(key) # AES_KEY_LENGTH THEN Raise(PlatformKeyError, t1, "argument")
       ELSE IF Fails(env, "decrypt") THEN Raise(env.obj, t2, "host")
       ELSE IF ~SubtleDecryptAuthentic(key, encryptedData.iv, TAG_LENGTH_BITS, combinedData)
            THEN Raise(WebAuthError, t2, "auth")
       ELSE Return("bytes",
                   SubtleDecryptBytes(key, encryptedData.iv, TAG_LENGTH_BITS, combinedData),
                   NoEnc, t2)

WebDecryptTry(encryptedData, key, env) ==
    LET v == WebDecryptValidation(encryptedData, key) IN
    IF v.threw THEN v ELSE WebDecipherSteps(encryptedData, key, env)

WebDecrypt(encryptedData, key, env) ==
    Settle(TRUE, WebDecryptCatch(WebDecryptTry(encryptedData, key, env)))

-----------------------------------------------------------------------------
(* deriveKey.  password is a string (a sequence of code points); params is a     *)
(* KeyDerivationParams record {iterations, keyLength, algorithm, hashFunction}.  *)

NodeDeriveValidation(password, salt) ==
    IF Len(password) = 0
    THEN Raise(createCryptoError("validation", "EMPTY_PASSWORD", MsgEmptyPassword), <<>>, "validation")
    ELSE IF Len(salt) = 0
    THEN Raise(createCryptoError("validation", "EMPTY_SALT", MsgEmptySalt), <<>>, "validation")
    ELSE Return("none", NoBytes, NoEnc, <<>>)

WebDeriveValidation(password, salt) ==
    IF Len(password) = 0
    THEN Raise(createCryptoError("validation", "EMPTY_PASSWORD", MsgEmptyPassword), <<>>, "validation")
    ELSE IF Len(salt) = 0
    THEN Raise(createCryptoError("validation", "EMPTY_SALT", MsgEmptySalt), <<>>, "validation")
    ELSE Return("none", NoBytes, NoEnc, <<>>)

NodeDeriveCatch(r) ==
    IF ~r.threw THEN r
    ELSE IF IsCryptoErrorByName(r.error) THEN r
    ELSE Raise(createCryptoError("key_derivation", "DERIVATION_FAILED",
                                 sanitizeErrorMessage(r.error)), r.trace, r.cause)

WebDeriveCatch(r) ==
    IF ~r.threw THEN r
    ELSE IF IsCryptoErrorByName(r.error) THEN r
    ELSE Raise(createCryptoError("key_derivation", "DERIVATION_FAILED",
                                 sanitizeErrorMessage(r.error)), r.trace, r.cause)

\* faulty variant: params.hashFunction is handed to the platform as it is
NodeHashAlgorithmPassThrough(params) == params.hashFunction

NodeHashAlgorithm(params) == IF params.hashFunction = "sha512" THEN "sha512" ELSE "sha256"

\* faulty variant: the hash is not selected by params.hashFunction
WebHashAlgorithmFixed(params) == "SHA-256"

WebHashAlgorithm(params) == IF params.hashFunction = "sha512" THEN "SHA-512" ELSE "SHA-256"

\* a PBKDF2 call as the platform sees it: fn, password bytes, salt, iterations,
\* output length in bytes, hash
KdfCall(fn, passwordBytes, salt, iterations, length, hash) ==
    [data |-> salt, iv |-> <<>>, fn |-> fn, key |-> passwordBytes,
     iterations |-> iterations, length |-> length, hash |-> hash]

\* pbkdf2Async(password, Buffer.from(salt), iterations, keyLength, hashAlgorithm):
\* Node encodes a string password as UTF-8
NodePbkdf2(password, salt, iterations, keyLength, hashAlgorithm, env) ==
    LET passwordBytes == Utf8Encode(password)
        trace == <<KdfCall("pbkdf2", passwordBytes, salt, iterations, keyLength,
                           hashAlgorithm)>>
    IN IF iterations < 1 \/ keyLength < 0 THEN Raise(PlatformRangeError, trace, "argument")
       ELSE IF Fails(env, "pbkdf2") THEN Raise(env.obj, trace, "host")
       ELSE Return("bytes",
                   Pbkdf2Bytes(passwordBytes, salt, iterations, hashAlgorithm, keyLength),
                   NoEnc, trace)

NodeDeriveKeyTry(password, salt, params, env) ==
    LET v == NodeDeriveValidation(password, salt) IN
    IF v.threw THEN v ELSE
    NodePbkdf2(password, salt, params.iterations, params.keyLength,
               NodeHashAlgorithm(params), env)

NodeDeriveKey(password, salt, params, env) ==
    Settle(TRUE, NodeDeriveCatch(NodeDeriveKeyTry(password, salt, params, env)))

\* crypto.subtle.deriveBits({name: 'PBKDF2', salt, iterations, hash}, keyMaterial, bits)
SubtleDeriveBits(keyMaterial, salt, iterations, hash, lengthBits, env, t0) ==
    LET trace == Append(t0, KdfCall("deriveBits", keyMaterial, salt, iterations,
                                    lengthBits \div 8, hash))
    IN IF iterations < 1 \/ lengthBits < 0 \/ lengthBits % 8 # 0
       THEN Raise(PlatformRangeError, trace, "argument")
       ELSE IF Fails(env, "deriveBits") THEN Raise(env.obj, trace, "host")
       ELSE Return("bytes",
                   Pbkdf2Bytes(keyMaterial, salt, iterations, hash, lengthBits \div 8),
                   NoEnc, trace)

\* faulty variant: keyLength is passed to deriveBits as a number of bits
WebDeriveKeyTryBytesAsBits(password, salt, params, env) ==
    LET v == WebDeriveValidation(password, salt) IN
    IF v.threw THEN v ELSE
    LET passwordBuffer == Utf8Encode(password)
        t1 == <<KdfCall("importKey", passwordBuffer, <<>>, 0, 0, "PBKDF2")>>
    IN IF Fails(env, "importKey") THEN Raise(env.obj, t1, "host")
       ELSE SubtleDeriveBits(passwordBuffer, salt, params.iterations,
                             WebHashAlgorithm(params), params.keyLength, env, t1)

WebDeriveKeyTry(password, salt, params, env) ==
    LET v == WebDeriveValidation(password, salt) IN
    IF v.threw THEN v ELSE
    LET passwordBuffer == Utf8Encode(password)
        t1 == <<KdfCall("importKey", passwordBuffer, <<>>, 0, 0, "PBKDF2")>>
    IN IF Fails(env, "importKey") THEN Raise(env.obj, t1, "host")
       ELSE SubtleDeriveBits(passwordBuffer, salt, params.iterations,
                             WebHashAlgorithm(params), params.keyLength * 8, env, t1)

\* the bytes of passwordBuffer when deriveKey settles: the buffer is made after
\* validation and passwordBuffer.fill(0) is the statement after `await
\* importKey(...)`, so it runs only if importKey did not throw; the catch block
\* does not touch the buffer
WebPasswordBufferAtSettle(password, salt, env) ==
    IF WebDeriveValidation(password, salt).threw THEN <<>>
    ELSE IF Fails(env, "importKey") THEN Utf8Encode(password)
    ELSE Zeros(Len(Utf8Encode(password)))

WebDeriveKey(password, salt, params, env) ==
    Settle(TRUE, WebDeriveCatch(WebDeriveKeyTry(password, salt, params, env)))

-----------------------------------------------------------------------------
(* The callers' inputs *)

Fill(n, b) == [i \in 1..n |-> b]

\* keys of the right length, and of a length the tests reject
Keys == {Fill(AES_KEY_LENGTH, 1), Fill(AES_KEY_LENGTH, 2), Fill(16, 1)}

PlainText(n) == [i \in 1..n |-> (200 + 55 * i) % 256]
PlainTexts == {PlainText(n) : n \in 0..MaxDataLen}

\* the lengths callers ask for, a negative one included, or none at all
LengthArgs == {<<>>} \cup {<<n>> : n \in -1..MaxLength}

\* a host that lets every call through, and one that fails the call named `at`
WorkingEnv(seeds) == {Env("none", NoError, seed) : seed \in seeds}
FailingEnv(steps, seed) == {Env(at, obj, seed) : at \in steps, obj \in ThrownObjects}

\* the part of the environment the call met: a failure it never reached and a
\* seed it never drew are not part of what happened
EnvSeen(env, out) ==
    IF out.cause = "host" THEN env
    ELSE Env("none", NoError,
             IF \E i \in 1..Len(out.trace) :
                    out.trace[i].fn \in {"randomBytes", "getRandomValues"}
             THEN env.seed ELSE 0)

EncryptSteps(backend) ==
    IF backend = "node" THEN {"iv", "salt", "createCipheriv", "update", "final", "getAuthTag"}
    ELSE {"iv", "salt", "importKey", "encrypt"}

DecryptSteps(backend) ==
    IF backend = "node" THEN {"createDecipheriv", "setAuthTag", "update", "final"}
    ELSE {"importKey", "decrypt"}

DeriveSteps(backend) == IF backend = "node" THEN {"pbkdf2"} ELSE {"importKey", "deriveBits"}

\* what a holder of an EncryptedData record may do to it before decrypt
Tamperings == {"flipData", "flipDataFirst", "flipTag", "flipIv"}
Malformings == {"emptyData", "shortIv", "shortTag"}
Mutations == {"none"} \cup Tamperings \cup Malformings

FlipByte(a, i) == [a EXCEPT ![i] = 255 - @]

Mutate(enc, m) ==
    CASE m = "flipData"      -> [enc EXCEPT !.data = FlipByte(@, Len(@))]
      [] m = "flipDataFirst" -> [enc EXCEPT !.data = FlipByte(@, 1)]
      [] m = "flipTag"       -> [enc EXCEPT !.authTag = FlipByte(@, 1)]
      [] m = "flipIv"        -> [enc EXCEPT !.iv = FlipByte(@, Len(@))]
      [] m = "emptyData"     -> [enc EXCEPT !.data = <<>>]
      [] m = "shortIv"       -> [enc EXCEPT !.iv = JsSlice(@, 0, 8)]
      [] m = "shortTag"      -> [enc EXCEPT !.authTag = JsSlice(@, 0, 8)]
      [] OTHER               -> enc

Passwords == {<<>>, <<112, 119>>, <<233>>}          \* "", "pw", "é"
Salts == {<<>>, <<1, 2, 3, 4>>}
KeyLengths == {20, 32}
HashFunctions == {"sha256", "sha512", "md5"}
Algorithms == {"pbkdf2", "scrypt"}

Params(iterations, keyLength, algorithm, hashFunction) ==
    [iterations |-> iterations, hashFunction |-> hashFunction, keyLength |-> keyLength,
     algorithm |-> algorithm]

NoParams == Params(0, 0, "", "")

-----------------------------------------------------------------------------
(* State *)

CallRecord(op, backend, data, key, enc, mutation, password, salt, params, env, outcome) ==
    [data |-> data, salt |-> salt, key |-> key, enc |-> enc, env |-> env,
     password |-> password, params |-> params, backend |-> backend, op |-> op,
     mutation |-> mutation, outcome |-> outcome]

NoCall ==
    CallRecord("none", "", <<>>, <<>>, NoEnc, "none", <<>>, <<>>, NoParams,
               Env("none", NoError, 0), NoOutcome)

EncryptOn(backend, data, key, env) ==
    IF backend = "node" THEN NodeEncrypt(data, key, env) ELSE WebEncrypt(data, key, env)

DecryptOn(backend, enc, key, env) ==
    IF backend = "node" THEN NodeDecrypt(enc, key, env) ELSE WebDecrypt(enc, key, env)

DeriveKeyOn(backend, password, salt, params, env) ==
    IF backend = "node" THEN NodeDeriveKey(password, salt, params, env)
    ELSE WebDeriveKey(password, salt, params, env)

\* a record no encrypt produced, as the tests build it
ForgedWire ==
    [key |-> <<>>,
     enc |-> [data |-> [i \in 1..16 |-> i], iv |-> Fill(DEFAULT_IV_LENGTH, 1),
              salt |-> Fill(DEFAULT_SALT_LENGTH, 2), authTag |-> Fill(AUTH_TAG_LENGTH, 3)],
     plain |-> <<>>, origin |-> "forged"]

\* the record a caller holds after encrypt(data, key) succeeded on `backend`
WireOf(backend, data, key, out) ==
    [key |-> key, enc |-> out.enc, plain |-> data, origin |-> backend]

\* records produced before the host started to fail
EarlierWires ==
    {WireOf(backend, PlainText(MaxDataLen), Fill(AES_KEY_LENGTH, 1),
            EncryptOn(backend, PlainText(MaxDataLen), Fill(AES_KEY_LENGTH, 1),
                      Env("none", NoError, 3))) : backend \in Backends}

Init ==
    /\ last = NoCall
    /\ wire = ForgedWire
    /\ derived = NoCall

\* cryptoService.encrypt(data, key); the caller keeps the record it gets back
Encrypt(backend, data, key, env) ==
    LET out == EncryptOn(backend, data, key, env)
    IN /\ last' = CallRecord("encrypt", backend, data, key, NoEnc, "none", <<>>, <<>>,
                             NoParams, EnvSeen(env, out), out)
       /\ wire' = IF out.has = "enc" THEN WireOf(backend, data, key, out) ELSE wire
       /\ UNCHANGED derived

\* cryptoService.decrypt(encryptedData, key) on the record the caller holds,
\* possibly altered on the way
Decrypt(backend, mutation, key, env) ==
    LET enc == Mutate(wire.enc, mutation)
        out == DecryptOn(backend, enc, key, env)
    IN /\ last' = CallRecord("decrypt", backend, <<>>, key, enc, mutation, <<>>, <<>>,
                             NoParams, EnvSeen(env, out), out)
       /\ UNCHANGED <<wire, derived>>

\* cryptoService.deriveKey(password, salt, params)
DeriveKey(backend, password, salt, params, env) ==
    LET out == DeriveKeyOn(backend, password, salt, params, env)
    IN /\ last' = CallRecord("deriveKey", backend, <<>>, <<>>, NoEnc, "none", password,
                             salt, params, EnvSeen(env, out), out)
       /\ derived' = NoCall
       /\ UNCHANGED wire

\* a second deriveKey call with the password, salt, iterations, keyLength and
\* hashFunction of the call that just succeeded, on any backend and with any
\* params.algorithm; the earlier call is kept for comparison
DeriveKeyAgain(backend, algorithm) ==
    /\ last.op = "deriveKey"
    /\ last.outcome.has = "bytes"
    /\ LET params == Params(last.params.iterations, last.params.keyLength, algorithm,
                            last.params.hashFunction)
           env    == Env("none", NoError, 0)
           out    == DeriveKeyOn(backend, last.password, last.salt, params, env)
       IN last' = CallRecord("deriveKey", backend, <<>>, <<>>, NoEnc, "none",
                             last.password, last.salt, params, EnvSeen(env, out), out)
    /\ derived' = last
    /\ UNCHANGED wire

\* a record with any number of its fields malformed at once
Malform(enc, malformings) ==
    [data    |-> IF "emptyData" \in malformings THEN <<>> ELSE enc.data,
     iv      |-> IF "shortIv" \in malformings THEN JsSlice(enc.iv, 0, 8) ELSE enc.iv,
     salt    |-> enc.salt,
     authTag |-> IF "shortTag" \in malformings THEN JsSlice(enc.authTag, 0, 8)
                 ELSE enc.authTag]

\* cryptoService.decrypt(encryptedData, key) on such a record
DecryptMalformed(backend, malformings, key, env) ==
    LET enc == Malform(wire.enc, malformings)
        out == DecryptOn(backend, enc, key, env)
    IN /\ last' = CallRecord("decrypt", backend, <<>>, key, enc, malformings, <<>>, <<>>,
                             NoParams, EnvSeen(env, out), out)
       /\ UNCHANGED <<wire, derived>>

\* a second decrypt call with the key of the call just made and its record with
\* another salt field, on any backend; the earlier call is kept for comparison
DecryptOtherSalt(backend, salt) ==
    /\ last.op = "decrypt"
    /\ LET enc == [data |-> last.enc.data, iv |-> last.enc.iv, salt |-> salt,
                   authTag |-> last.enc.authTag]
           env == Env("none", NoError, 0)
           out == DecryptOn(backend, enc, last.key, env)
       IN last' = CallRecord("decrypt", backend, <<>>, last.key, enc, last.mutation,
                             <<>>, <<>>, NoParams, EnvSeen(env, out), out)
    /\ derived' = last
    /\ UNCHANGED wire

\* generateSalt(length = DEFAULT_SALT_LENGTH) and generateIV(length =
\* DEFAULT_IV_LENGTH): args is <<>> when the caller omits the length
SaltLength(args) == IF args = <<>> THEN DEFAULT_SALT_LENGTH ELSE args[1]
IVLength(args) == IF args = <<>> THEN DEFAULT_IV_LENGTH ELSE args[1]

\* both methods return their value, or throw, out of the call itself
GenerateSaltOn(backend, args, env) ==
    Settle(FALSE, IF backend = "node" THEN NodeGenerateSalt(SaltLength(args), env, 0)
                  ELSE WebGenerateSalt(SaltLength(args), env, 0))

GenerateIVOn(backend, args, env) ==
    Settle(FALSE, IF backend = "node" THEN NodeGenerateIV(IVLength(args), env, 0)
                  ELSE WebGenerateIV(IVLength(args), env, 0))

GenerateCall(op, backend, args, env, outcome) ==
    [env |-> env, backend |-> backend, op |-> op, outcome |-> outcome, args |-> args]

\* service.generateSalt(...)
GenerateSalt(backend, args, env) ==
    LET out == GenerateSaltOn(backend, args, env)
    IN /\ last' = GenerateCall("generateSalt", backend, args, EnvSeen(env, out), out)
       /\ UNCHANGED <<wire, derived>>

\* service.generateIV(...)
GenerateIV(backend, args, env) ==
    LET out == GenerateIVOn(backend, args, env)
    IN /\ last' = GenerateCall("generateIV", backend, args, EnvSeen(env, out), out)
       /\ UNCHANGED <<wire, derived>>

\* a second encrypt call with the data and the key of the call that just
\* succeeded, on any backend, with whatever the random source returns this time;
\* the earlier call is kept for comparison
EncryptAgain(backend, seed) ==
    /\ last.op = "encrypt"
    /\ last.outcome.has = "enc"
    /\ LET env == Env("none", NoError, seed)
           out == EncryptOn(backend, last.data, last.key, env)
       IN /\ last' = CallRecord("encrypt", backend, last.data, last.key, NoEnc, "none",
                                <<>>, <<>>, NoParams, EnvSeen(env, out), out)
          /\ wire' = IF out.has = "enc" THEN WireOf(backend, last.data, last.key, out)
                     ELSE wire
    /\ derived' = last

-----------------------------------------------------------------------------
(* Specifications *)

\* on a host whose platform calls all go through
EncryptCalls ==
    \E backend \in Backends, data \in PlainTexts, key \in Keys, env \in WorkingEnv(Seeds) :
        Encrypt(backend, data, key, env)

DecryptCalls ==
    \E backend \in Backends, mutation \in Mutations, key \in Keys :
        Decrypt(backend, mutation, key, Env("none", NoError, 0))

\* on a host that fails one platform call of every operation
EncryptFailing ==
    \E backend \in Backends, data \in PlainTexts, key \in Keys :
        \E env \in FailingEnv(EncryptSteps(backend), 3) :
            Encrypt(backend, data, key, env)

DecryptFailing ==
    \E backend \in Backends, mutation \in Mutations, key \in Keys :
        \E env \in FailingEnv(DecryptSteps(backend), 0) :
            Decrypt(backend, mutation, key, env)

DeriveKeyCalls ==
    \E backend \in Backends, password \in Passwords, salt \in Salts,
       iterations \in 0..MaxIterations, keyLength \in KeyLengths,
       hashFunction \in HashFunctions :
        \E env \in WorkingEnv({0}) \cup FailingEnv(DeriveSteps(backend), 0) :
            DeriveKey(backend, password, salt,
                      Params(iterations, keyLength, "pbkdf2", hashFunction), env)

DeriveKeyAgainCalls ==
    \E backend \in Backends, algorithm \in Algorithms : DeriveKeyAgain(backend, algorithm)

Next ==
    \/ EncryptCalls
    \/ DecryptCalls
    \/ EncryptFailing
    \/ DecryptFailing
    \/ DeriveKeyCalls
    \/ DeriveKeyAgainCalls

Spec == Init /\ [][Next]_vars

\* encrypt and decrypt on a working host
CipherNext == EncryptCalls \/ DecryptCalls
SpecCipher == Init /\ [][CipherNext]_vars

\* encrypt and decrypt on a failing host, starting from a forged record or from
\* one produced earlier
InitFailing ==
    /\ last = NoCall
    /\ wire \in {ForgedWire} \cup EarlierWires
    /\ derived = NoCall

FailingNext == EncryptFailing \/ DecryptFailing
SpecFailing == InitFailing /\ [][FailingNext]_vars

\* deriveKey
KdfNext == DeriveKeyCalls \/ DeriveKeyAgainCalls
SpecKdf == Init /\ [][KdfNext]_vars

\* encrypt called twice with the same data and key
EncryptAgainCalls ==
    \E backend \in Backends, seed \in Seeds : EncryptAgain(backend, seed)

TwiceNext == EncryptCalls \/ EncryptAgainCalls
SpecTwice == Init /\ [][TwiceNext]_vars

\* deriveKey on a working host with every kind of params.hashFunction: the two
\* values of the type, undefined, and strings outside the type
HashFunctionValues == HashFunctions \cup {"undefined", "SHA-512", "sha1"}

DeriveKeyHashCalls ==
    \E backend \in Backends, password \in Passwords, salt \in Salts,
       iterations \in 0..MaxIterations, keyLength \in KeyLengths,
       hashFunction \in HashFunctionValues :
        DeriveKey(backend, password, salt,
                  Params(iterations, keyLength, "pbkdf2", hashFunction),
                  Env("none", NoError, 0))

SpecHash == Init /\ [][DeriveKeyHashCalls]_vars

\* encrypt, decrypt and deriveKey with well-formed and malformed inputs, on a
\* host that fails one platform call of the operation
DeriveKeyFailing ==
    \E backend \in Backends, password \in Passwords, salt \in Salts :
        \E env \in FailingEnv(DeriveSteps(backend), 0) :
            DeriveKey(backend, password, salt, Params(1, 32, "pbkdf2", "sha256"), env)

ValidationNext == EncryptFailing \/ DecryptFailing \/ DeriveKeyFailing
SpecValidation == InitFailing /\ [][ValidationNext]_vars

\* inputs that break several validation rules of an operation at once
DecryptMalformedCalls ==
    \E backend \in Backends, malformings \in SUBSET Malformings, key \in Keys :
        DecryptMalformed(backend, malformings, key, Env("none", NoError, 0))

OrderNext == EncryptCalls \/ DecryptMalformedCalls \/ DeriveKeyFailing
SpecOrder == Init /\ [][OrderNext]_vars

\* decrypt of one record under other salt fields: empty, and of the usual length
\* with other bytes
OtherSalts == {<<>>, Fill(DEFAULT_SALT_LENGTH, 9)}

DecryptOtherSaltCalls ==
    \E backend \in Backends, salt \in OtherSalts : DecryptOtherSalt(backend, salt)

\* starting from a forged record or from one produced earlier
SaltNext == DecryptCalls \/ DecryptOtherSaltCalls
SpecSalt == InitFailing /\ [][SaltNext]_vars

\* every operation of a backend, succeeding and failing
DeriveKeyPlainCalls ==
    \E backend \in Backends, password \in Passwords, salt \in Salts :
        DeriveKey(backend, password, salt, Params(1, 32, "pbkdf2", "sha256"),
                  Env("none", NoError, 0))

\* generateSalt and generateIV, on a host that works and on one whose random
\* source fails
GenerateSaltCalls ==
    \E backend \in Backends, args \in LengthArgs :
        \E env \in WorkingEnv(Seeds) \cup FailingEnv({"salt"}, 3) :
            GenerateSalt(backend, args, env)

GenerateIVCalls ==
    \E backend \in Backends, args \in LengthArgs :
        \E env \in WorkingEnv(Seeds) \cup FailingEnv({"iv"}, 3) :
            GenerateIV(backend, args, env)

RandomNext == GenerateSaltCalls \/ GenerateIVCalls
SpecRandom == Init /\ [][RandomNext]_vars

-----------------------------------------------------------------------------
(* Storage.  Every byte array lives in a buffer; a buffer is named by the       *)
(* argument that brought it in or by the place that allocated it.  returned     *)
(* lists the buffers of the arrays an operation hands back when it succeeds,    *)
(* written the buffers it stores bytes into.                                    *)

ArgumentBuffers ==
    {"data", "key", "salt", "encryptedData.data", "encryptedData.iv",
     "encryptedData.salt", "encryptedData.authTag"}

\* new Uint8Array(typedArray), Buffer.from(typedArray), typedArray.slice(...):
\* the bytes are copied into a buffer allocated at `site`
CopyAt(site, source) == site
\* new Uint8Array(arrayBuffer), typedArray.subarray(...): a view on the same buffer
ViewOn(buffer) == buffer

Storage(returned, written) == [returned |-> returned, written |-> written]

NodeEncryptStorage ==
    LET iv        == CopyAt("node-crypto.ts:142", "randomBytes:141")
        salt      == CopyAt("node-crypto.ts:132", "randomBytes:131")
        update    == CopyAt("node-crypto.ts:66", "data")
        encrypted == CopyAt("node-crypto.ts:65", "cipher")
        authTag   == "getAuthTag:70"
    IN Storage(<<CopyAt("node-crypto.ts:73", encrypted), CopyAt("node-crypto.ts:74", iv),
                 CopyAt("node-crypto.ts:75", salt), CopyAt("node-crypto.ts:76", authTag)>>,
               {})

\* faulty variant: the two halves are views on the combined array
WebEncryptStorageSubarray ==
    LET iv             == "web-crypto.ts:184"
        salt           == "web-crypto.ts:173"
        encryptedArray == ViewOn("subtle.encrypt:85")
        encryptedData  == ViewOn(encryptedArray)
        authTag        == ViewOn(encryptedArray)
    IN Storage(<<encryptedData, iv, salt, authTag>>, {iv, salt})

WebEncryptStorage ==
    LET iv             == "web-crypto.ts:184"
        salt           == "web-crypto.ts:173"
        encryptedArray == ViewOn("subtle.encrypt:85")
        encryptedData  == CopyAt("web-crypto.ts:97", encryptedArray)
        authTag        == CopyAt("web-crypto.ts:98", encryptedArray)
    IN Storage(<<encryptedData, iv, salt, authTag>>, {iv, salt})

NodeDecryptStorage ==
    LET authTag   == CopyAt("node-crypto.ts:112", "encryptedData.authTag")
        update    == CopyAt("node-crypto.ts:115", "encryptedData.data")
        decrypted == CopyAt("node-crypto.ts:114", "decipher")
    IN Storage(<<CopyAt("node-crypto.ts:119", decrypted)>>, {})

WebDecryptStorage ==
    LET combinedData == "web-crypto.ts:144"
    IN Storage(<<ViewOn("subtle.decrypt:149")>>, {combinedData})

NodeDeriveStorage ==
    LET salt == CopyAt("node-crypto.ts:33", "salt")
    IN Storage(<<CopyAt("node-crypto.ts:39", "pbkdf2:31")>>, {})

WebDeriveStorage ==
    LET passwordBuffer == "web-crypto.ts:26"
    IN Storage(<<ViewOn("subtle.deriveBits:40")>>, {passwordBuffer})

NodeGenerateStorage == Storage(<<CopyAt("node-crypto.ts:132", "randomBytes:131")>>, {})
WebGenerateStorage == Storage(<<"web-crypto.ts:173">>, {"web-crypto.ts:173"})

StorageOf(backend, op) ==
    CASE op = "encrypt"   -> IF backend = "node" THEN NodeEncryptStorage ELSE WebEncryptStorage
      [] op = "decrypt"   -> IF backend = "node" THEN NodeDecryptStorage ELSE WebDecryptStorage
      [] op = "deriveKey" -> IF backend = "node" THEN NodeDeriveStorage ELSE WebDeriveStorage
      [] OTHER            -> IF backend = "node" THEN NodeGenerateStorage ELSE WebGenerateStorage

FrameNext ==
    EncryptCalls \/ DecryptCalls \/ DeriveKeyPlainCalls \/ GenerateSaltCalls \/ GenerateIVCalls
SpecFrame == Init /\ [][FrameNext]_vars

-----------------------------------------------------------------------------
(* Calls in flight on one shared instance.  The classes declare no instance     *)
(* fields: a call keeps what it computes in local constants, and what the calls *)
(* share is the random source of the host.  A call runs from its start to its   *)
(* first `await`, and from one `await` to the next, without interruption; in    *)
(* between, other calls may start or go on.  The pool (kept in `last`) holds    *)
(* the calls issued so far and the number of draws taken from the random        *)
(* source.                                                                      *)

PoolEnv == Env("none", NoError, 3)

\* the host as a call sees it when its first draw is the k-th draw of the source
StreamEnv(k) == Env("none", NoError, (PoolEnv.seed + 64 * k) % 256)

\* a call in flight: pc is the awaited platform call ("settled" at the end), iv,
\* salt and trace are the local constants of encrypt
Task(pc, call, iv, salt, trace) ==
    [iv |-> iv, salt |-> salt, trace |-> trace, pc |-> pc, call |-> call]

Pool(tasks, drawn) == [op |-> "pool", tasks |-> tasks, drawn |-> drawn]

PoolNow == IF last.op = "pool" THEN last ELSE Pool(<<>>, 0)

WithOutcome(call, env, outcome) ==
    CallRecord(call.op, call.backend, call.data, call.key, call.enc, call.mutation,
               call.password, call.salt, call.params, env, outcome)

\* the call run on its own on the host env
AloneOutcome(call, env) ==
    CASE call.op = "encrypt"   -> EncryptOn(call.backend, call.data, call.key, env)
      [] call.op = "decrypt"   -> DecryptOn(call.backend, call.enc, call.key, env)
      [] call.op = "deriveKey" ->
             DeriveKeyOn(call.backend, call.password, call.salt, call.params, env)
      [] call.op = "generateSalt" -> GenerateSaltOn(call.backend, <<>>, env)
      [] OTHER                 -> GenerateIVOn(call.backend, <<>>, env)

\* the platform calls a method awaits, in order; methods that are not async and
\* the generators await nothing
Awaits(call) ==
    CASE call.op = "encrypt" /\ call.backend = "web"    -> <<"importKey", "encrypt">>
      [] call.op = "decrypt" /\ call.backend = "web"    -> <<"importKey", "decrypt">>
      [] call.op = "deriveKey" /\ call.backend = "web"  -> <<"importKey", "deriveBits">>
      [] call.op = "deriveKey" /\ call.backend = "node" -> <<"pbkdf2">>
      [] OTHER -> <<>>

DrawsIn(trace) ==
    Cardinality({i \in 1..Len(trace) : trace[i].fn \in {"randomBytes", "getRandomValues"}})

\* a call from its start to its first await, the source having given k draws
StartTask(call, k) ==
    LET env == StreamEnv(k)
        settled == Task("settled", WithOutcome(call, env, AloneOutcome(call, env)),
                        <<>>, <<>>, <<>>)
    IN IF Awaits(call) = <<>> \/ AloneOutcome(call, env).cause = "validation" THEN settled
       ELSE IF call.op = "encrypt"
       THEN LET iv   == WebGenerateIV(DEFAULT_IV_LENGTH, PoolEnv, k)
                salt == WebGenerateSalt(DEFAULT_SALT_LENGTH, PoolEnv, k + 1)
            IN Task(Awaits(call)[1], WithOutcome(call, env, NoOutcome), iv.bytes,
                    salt.bytes, iv.trace \o salt.trace)
       ELSE Task(Awaits(call)[1], WithOutcome(call, env, NoOutcome), <<>>, <<>>, <<>>)

DrawsOf(task) ==
    IF task.pc = "settled" THEN DrawsIn(task.call.outcome.trace) ELSE DrawsIn(task.trace)

\* faulty variant: the IV is kept in a field of the instance, which the call
\* started last has overwritten
TaskIvShared(pool, i) == pool.tasks[Len(pool.tasks)].iv

\* the IV encrypt hands to the cipher: its own local constant
TaskIv(pool, i) == pool.tasks[i].iv

\* the call after its last await: encrypt goes on with its local constants
SettleTask(pool, i) ==
    LET task == pool.tasks[i]
        call == task.call
        out  == IF call.op = "encrypt"
                THEN Settle(TRUE, WebEncryptCatch(
                         WebCipherSteps(call.data, call.key, TaskIv(pool, i), task.salt,
                                        PoolEnv, task.trace)))
                ELSE AloneOutcome(call, call.env)
    IN Task("settled", WithOutcome(call, call.env, out), task.iv, task.salt, task.trace)

\* the calls callers issue
PoolCalls ==
    {CallRecord("encrypt", backend, data, key, NoEnc, "none", <<>>, <<>>, NoParams,
                PoolEnv, NoOutcome) :
        backend \in Backends, data \in {PlainText(1), PlainText(MaxDataLen)},
        key \in {Fill(AES_KEY_LENGTH, 1), Fill(16, 1)}}
    \cup {CallRecord("decrypt", backend, <<>>, w.key, w.enc, "none", <<>>, <<>>, NoParams,
                     PoolEnv, NoOutcome) : backend \in Backends, w \in EarlierWires}
    \cup {CallRecord("deriveKey", backend, <<>>, <<>>, NoEnc, "none", <<112, 119>>,
                     <<1, 2, 3, 4>>, Params(1, 32, "pbkdf2", "sha256"), PoolEnv, NoOutcome) :
             backend \in Backends}
    \cup {CallRecord(op, "web", <<>>, <<>>, NoEnc, "none", <<>>, <<>>, NoParams,
                     PoolEnv, NoOutcome) : op \in {"generateSalt", "generateIV"}}

\* a caller issues a call on the shared instance; it runs to its first await
Issue(call) ==
    /\ Len(PoolNow.tasks) < MaxTasks
    /\ LET task == StartTask(call, PoolNow.drawn)
       IN last' = Pool(Append(PoolNow.tasks, task), PoolNow.drawn + DrawsOf(task))
    /\ UNCHANGED <<wire, derived>>

\* the platform call a suspended call awaits completes; the call runs to its
\* next await or settles
Resume(i) ==
    /\ last.op = "pool"
    /\ i \in 1..Len(last.tasks)
    /\ last.tasks[i].pc # "settled"
    /\ LET task == last.tasks[i]
           rest == Awaits(task.call)
           next == IF task.pc = rest[Len(rest)] THEN SettleTask(last, i)
                   ELSE Task(rest[Len(rest)], task.call, task.iv, task.salt, task.trace)
       IN last' = Pool([j \in 1..Len(last.tasks) |-> IF j = i THEN next ELSE last.tasks[j]],
                       last.drawn)
    /\ UNCHANGED <<wire, derived>>

PoolNext == (\E call \in PoolCalls : Issue(call)) \/ (\E i \in 1..MaxTasks : Resume(i))
SpecPool == Init /\ [][PoolNext]_vars

-----------------------------------------------------------------------------
(* Properties *)

Resolved(out, has) == out.kind = "resolved" /\ out.has = has
Raised(out) == out.kind \in {"rejected", "thrown"}

\* the raised value is an error of the service with this category and one of these codes
RaisedAs(out, category, codes) ==
    /\ Raised(out)
    /\ out.has = "error"
    /\ out.error.impl
    /\ out.error.name = "CryptoError"
    /\ out.error.category = category
    /\ out.error.code \in codes

ShapeOk(enc, key) ==
    /\ Len(key) = 32
    /\ Len(enc.data) > 0
    /\ Len(enc.iv) = 12
    /\ Len(enc.authTag) = 16

\* AES-GCM refuses (key, iv, data, authTag): the tag is not the tag of the data
GcmRejects(enc, key) == enc.authTag # GcmTag(key, enc.iv, enc.data, Len(enc.authTag))

Genuine == wire.origin \in Backends

\* C1: a decrypt call whose inputs pass validation and which AES-GCM refuses (a
\* key other than the encrypting key, or a changed byte of data, authTag or iv of
\* a record encrypt produced) resolves to null and raises nothing, on both
\* backends and whatever the cause.
C1_RejectedInputGivesNull ==
    (last.op = "decrypt" /\ last.env.at = "none" /\ ShapeOk(last.enc, last.key))
    => /\ GcmRejects(last.enc, last.key) => Resolved(last.outcome, "null")
       /\ (Genuine /\ (last.key # wire.key \/ last.mutation \in Tamperings))
          => Resolved(last.outcome, "null")

C1_Witness ==
    /\ last.op = "decrypt"
    /\ Genuine
    /\ last.backend = "web"
    /\ last.key = wire.key
    /\ last.mutation = "flipTag"
    /\ Resolved(last.outcome, "null")

DecryptCodes ==
    {"INVALID_KEY_LENGTH", "EMPTY_ENCRYPTED_DATA", "INVALID_IV_LENGTH",
     "INVALID_AUTH_TAG_LENGTH"}

\* C2: every error decrypt raises is a validation error with one of the four
\* decrypt codes, and a failure of a platform call after validation, whatever
\* object it throws, gives null.
C2_PlatformFailureGivesNull ==
    last.op = "decrypt"
    => /\ Raised(last.outcome) => RaisedAs(last.outcome, "validation", DecryptCodes)
       /\ last.outcome.cause = "host" => Resolved(last.outcome, "null")

\* the codes of the decrypt rules an input breaks
BrokenDecryptRules(enc, key) ==
    {c \in DecryptCodes :
        \/ c = "INVALID_KEY_LENGTH" /\ Len(key) # 32
        \/ c = "EMPTY_ENCRYPTED_DATA" /\ Len(enc.data) = 0
        \/ c = "INVALID_IV_LENGTH" /\ Len(enc.iv) # 12
        \/ c = "INVALID_AUTH_TAG_LENGTH" /\ Len(enc.authTag) # 16}

\* C3: decrypt raises a validation error, and returns neither null nor plaintext,
\* whenever the key is not 32 bytes, the data is empty, the iv is not 12 bytes or
\* the authTag is not 16 bytes; the code names a rule the input breaks.
C3_MalformedInputRaisesValidation ==
    (last.op = "decrypt" /\ ~ShapeOk(last.enc, last.key))
    => RaisedAs(last.outcome, "validation", BrokenDecryptRules(last.enc, last.key))

C3_Witness ==
    /\ last.op = "decrypt"
    /\ last.mutation = "shortTag"
    /\ Len(last.key) = 32
    /\ last.outcome.error.code = "INVALID_AUTH_TAG_LENGTH"
    /\ last.env.at = "none"

\* C4: decrypt(encrypt(data, key), key) on one backend resolves to data, not null.
C4_RoundTrip ==
    (/\ last.op = "decrypt"
     /\ Genuine
     /\ last.backend = wire.origin
     /\ last.mutation = "none"
     /\ last.key = wire.key)
    => /\ Resolved(last.outcome, "bytes")
       /\ last.outcome.bytes = wire.plain

C4_Witness ==
    /\ last.op = "decrypt"
    /\ Genuine
    /\ last.backend = wire.origin
    /\ last.backend = "web"
    /\ last.mutation = "none"
    /\ last.key = wire.key
    /\ Len(wire.plain) = MaxDataLen
    /\ last.outcome.bytes = wire.plain

\* C5: encrypt raises validation/EMPTY_DATA for empty data and
\* validation/INVALID_KEY_LENGTH for a key that is not 32 bytes (the data check
\* comes first), the error is the service's own and not ENCRYPTION_FAILED, and no
\* EncryptedData comes back.
C5_EncryptValidation ==
    last.op = "encrypt"
    => /\ Len(last.data) = 0
          => RaisedAs(last.outcome, "validation", {"EMPTY_DATA"})
       /\ (Len(last.data) > 0 /\ Len(last.key) # 32)
          => RaisedAs(last.outcome, "validation", {"INVALID_KEY_LENGTH"})
       /\ (Len(last.data) = 0 \/ Len(last.key) # 32)
          => /\ last.outcome.enc = NoEnc
             /\ last.outcome.trace = <<>>

C5_Witness ==
    /\ last.op = "encrypt"
    /\ Len(last.data) > 0
    /\ Len(last.key) = 16
    /\ RaisedAs(last.outcome, "validation", {"INVALID_KEY_LENGTH"})

\* the object a failed platform call of the last operation threw
ThrownByPlatform ==
    IF last.outcome.cause = "host" THEN last.env.obj ELSE PlatformRangeError

\* C6: every error encrypt raises is validation/EMPTY_DATA,
\* validation/INVALID_KEY_LENGTH, or encryption/ENCRYPTION_FAILED with a
\* sanitized message, also when the random source fails while the IV or the salt
\* is generated.
C6_EncryptErrorsAreValidationOrEncryption ==
    (last.op = "encrypt" /\ Raised(last.outcome))
    => \/ RaisedAs(last.outcome, "validation", {"EMPTY_DATA", "INVALID_KEY_LENGTH"})
       \/ /\ RaisedAs(last.outcome, "encryption", {"ENCRYPTION_FAILED"})
          /\ last.outcome.error.message = sanitizeErrorMessage(ThrownByPlatform)

\* C7: deriveKey raises validation/EMPTY_PASSWORD for an empty password,
\* validation/EMPTY_SALT for an empty salt, and for any failure of the PBKDF2
\* primitive key_derivation/DERIVATION_FAILED whose message is
\* sanitizeErrorMessage of what the primitive threw.
C7_DeriveKeyErrors ==
    last.op = "deriveKey"
    => /\ Len(last.password) = 0
          => RaisedAs(last.outcome, "validation", {"EMPTY_PASSWORD"})
       /\ (Len(last.password) > 0 /\ Len(last.salt) = 0)
          => RaisedAs(last.outcome, "validation", {"EMPTY_SALT"})
       /\ last.outcome.cause \in {"host", "argument"}
          => /\ RaisedAs(last.outcome, "key_derivation", {"DERIVATION_FAILED"})
             /\ last.outcome.error.message = sanitizeErrorMessage(ThrownByPlatform)

Derived(call) == call.op = "deriveKey" /\ Resolved(call.outcome, "bytes")

\* the PBKDF2 request a deriveKey call made to its platform
KdfRequest(call) ==
    LET c == call.outcome.trace[Len(call.outcome.trace)]
    IN <<c.key, c.data, c.iterations, c.length, HashBits(c.hash)>>

SameArguments(a, b) ==
    /\ a.password = b.password
    /\ a.salt = b.salt
    /\ a.params.iterations = b.params.iterations
    /\ a.params.keyLength = b.params.keyLength
    /\ a.params.hashFunction = b.params.hashFunction

\* C8: two deriveKey calls with the same password, salt, iterations, keyLength
\* and hashFunction return the same bytes, on one backend and across backends,
\* whatever params.algorithm is: both give PBKDF2 the same password bytes, salt,
\* iteration count, output length and hash.
C8_DeriveKeyDeterministic ==
    (Derived(derived) /\ last.op = "deriveKey" /\ SameArguments(derived, last))
    => /\ Derived(last)
       /\ last.outcome.bytes = derived.outcome.bytes
       /\ KdfRequest(last) = KdfRequest(derived)

C8_Witness ==
    /\ Derived(derived)
    /\ Derived(last)
    /\ derived.backend = "node"
    /\ last.backend = "web"
    /\ derived.params.algorithm # last.params.algorithm
    /\ last.params.hashFunction = "sha512"
    /\ last.password = <<233>>
    /\ last.outcome.bytes = derived.outcome.bytes

OtherBackend(b) == IF b = "node" THEN "web" ELSE "node"

\* C9: a record one backend's encrypt produced decrypts to the data on the other
\* backend under the same key, and for the same key, iv and plaintext both
\* backends produce the same data and the same 16-byte authTag.
C9_BackendsInterchangeable ==
    /\ (/\ last.op = "decrypt"
        /\ Genuine
        /\ last.backend # wire.origin
        /\ last.mutation = "none"
        /\ last.key = wire.key)
       => /\ Resolved(last.outcome, "bytes")
          /\ last.outcome.bytes = wire.plain
    /\ (last.op = "encrypt" /\ Resolved(last.outcome, "enc"))
       => /\ EncryptOn(OtherBackend(last.backend), last.data, last.key, last.env).enc
             = last.outcome.enc
          /\ Len(last.outcome.enc.authTag) = 16

C9_Witness ==
    /\ last.op = "decrypt"
    /\ wire.origin = "web"
    /\ last.backend = "node"
    /\ last.mutation = "none"
    /\ last.key = wire.key
    /\ Len(wire.plain) = MaxDataLen
    /\ last.outcome.bytes = wire.plain

RandomFns == {"randomBytes", "getRandomValues"}
CipherFns == {"createCipheriv", "encrypt"}

\* C10: a record encrypt returns has a 12-byte iv, a 32-byte salt, a 16-byte
\* authTag and data as long as the plaintext; its iv is the IV the cipher was
\* given and iv and salt are the two draws from the random source of that call.
C10_EncryptedDataShape ==
    (last.op = "encrypt" /\ Resolved(last.outcome, "enc"))
    => LET enc == last.outcome.enc
           trace == last.outcome.trace
       IN /\ Len(enc.iv) = 12
          /\ Len(enc.salt) = 32
          /\ Len(enc.authTag) = 16
          /\ Len(enc.data) = Len(last.data)
          /\ \A i \in 1..Len(trace) : trace[i].fn \in CipherFns => trace[i].iv = enc.iv
          /\ \E i \in 1..Len(trace) : trace[i].fn \in CipherFns
          /\ {i \in 1..Len(trace) : trace[i].fn \in RandomFns} = {1, 2}
          /\ trace[1].data = enc.iv
          /\ trace[2].data = enc.salt
          /\ enc.iv = RandomDraw(12, last.env.seed, 0)
          /\ enc.salt = RandomDraw(32, last.env.seed, 1)

C10_Witness ==
    /\ last.op = "encrypt"
    /\ Resolved(last.outcome, "enc")
    /\ last.backend = "node"
    /\ last.env.seed = 250
    /\ Len(last.data) = MaxDataLen

\* two encrypt calls that succeeded with the same data and the same key
Encrypted(call) == call.op = "encrypt" /\ Resolved(call.outcome, "enc")

SameDataAndKey == Encrypted(derived) /\ Encrypted(last)
                  /\ derived.data = last.data /\ derived.key = last.key

\* the bytes the random source returned for the IV of a call
IvDraw(call) == call.outcome.trace[1].data

\* C11: any two encrypt calls with the same data and key return records whose iv
\* fields differ and whose data fields differ.
C11_TwoEncryptionsDiffer ==
    SameDataAndKey
    => /\ last.outcome.enc.iv # derived.outcome.enc.iv
       /\ last.outcome.enc.data # derived.outcome.enc.data

\* C11 (amended): the iv of each record is the draw its own call made, so the
\* two iv fields differ exactly when the random source returned different bytes
\* for the two IV draws; when it returned the same bytes, iv and data are equal.
C11_IvDiffersWhenDrawsDiffer ==
    SameDataAndKey
    => /\ (last.outcome.enc.iv # derived.outcome.enc.iv) <=> (IvDraw(last) # IvDraw(derived))
       /\ IvDraw(last) = IvDraw(derived)
          => /\ last.outcome.enc.iv = derived.outcome.enc.iv
             /\ last.outcome.enc.data = derived.outcome.enc.data

C11_Witness ==
    /\ SameDataAndKey
    /\ derived.backend = "node"
    /\ last.backend = "web"
    /\ IvDraw(last) # IvDraw(derived)
    /\ last.outcome.enc.iv # derived.outcome.enc.iv
    /\ Len(last.data) = MaxDataLen

\* the length a generate call works with, and whether the random source serves it
AskedLength == IF last.op = "generateSalt" THEN SaltLength(last.args)
               ELSE IVLength(last.args)
SourceServes == AskedLength >= 0 /\ last.env.at = "none"

\* C12: generateSalt(length) and generateIV(length) return exactly length bytes
\* when the random source accepts the request, 32 and 12 bytes when the length
\* is omitted; when the source or the allocation fails they raise an
\* initialization error, SALT_GENERATION_FAILED or IV_GENERATION_FAILED, and
\* return nothing.
C12_GenerateLengthAndErrors ==
    last.op \in {"generateSalt", "generateIV"}
    => /\ SourceServes
          => /\ Resolved(last.outcome, "bytes")
             /\ Len(last.outcome.bytes) = AskedLength
             /\ last.args = <<>>
                => Len(last.outcome.bytes) = (IF last.op = "generateSalt" THEN 32 ELSE 12)
       /\ ~SourceServes
          => /\ RaisedAs(last.outcome, "initialization",
                         IF last.op = "generateSalt" THEN {"SALT_GENERATION_FAILED"}
                         ELSE {"IV_GENERATION_FAILED"})
             /\ last.outcome.bytes = NoBytes

C12_Witness ==
    /\ last.op = "generateIV"
    /\ last.backend = "web"
    /\ last.args = <<>>
    /\ Len(last.outcome.bytes) = 12

\* the PBKDF2 call that produced the key of the last deriveKey
LastKdfCall == last.outcome.trace[Len(last.outcome.trace)]

\* C13: a deriveKey that succeeds returns exactly params.keyLength bytes on both
\* backends; the WebCrypto backend asks deriveBits for params.keyLength * 8 bits
\* (keyLength whole bytes) and returns every derived byte, none cut, none added.
C13_DerivedKeyLength ==
    Derived(last)
    => /\ Len(last.outcome.bytes) = last.params.keyLength
       /\ LastKdfCall.fn = (IF last.backend = "web" THEN "deriveBits" ELSE "pbkdf2")
       /\ LastKdfCall.length = last.params.keyLength
       /\ last.outcome.bytes =
              Pbkdf2Bytes(LastKdfCall.key, LastKdfCall.data, LastKdfCall.iterations,
                          LastKdfCall.hash, LastKdfCall.length)

C13_Witness ==
    /\ Derived(last)
    /\ last.backend = "web"
    /\ last.params.keyLength = 20
    /\ Len(last.outcome.bytes) = 20

\* C15: an error deriveKey, encrypt, generateSalt or generateIV surfaces after a
\* failure of the crypto or random primitive carries the message
\* sanitizeErrorMessage gives for the object the primitive threw, whatever the
\* name or type of that object; the original message never reaches the caller.
C15_PrimitiveErrorsAreSanitized ==
    (/\ last.op \in {"deriveKey", "encrypt", "generateSalt", "generateIV"}
     /\ Raised(last.outcome)
     /\ last.outcome.cause \in {"host", "argument"})
    => last.outcome.error.message = sanitizeErrorMessage(ThrownByPlatform)

\* the inputs of the call pass every validation check of its operation
PassesValidation(call) ==
    CASE call.op = "encrypt"   -> Len(call.data) > 0 /\ Len(call.key) = 32
      [] call.op = "decrypt"   -> ShapeOk(call.enc, call.key)
      [] call.op = "deriveKey" -> Len(call.password) > 0 /\ Len(call.salt) > 0
      [] OTHER                 -> TRUE

\* C20: in deriveKey, encrypt and decrypt on both backends a call that fails
\* validation has made no call into the underlying library (no random bytes, no
\* key import, no PBKDF2, no cipher step), and a call that did reach the library
\* had inputs that pass every validation check of its operation.
C20_ValidationPrecedesPrimitives ==
    last.op \in {"deriveKey", "encrypt", "decrypt"}
    => /\ ~PassesValidation(last)
          => /\ last.outcome.cause = "validation"
             /\ last.outcome.trace = <<>>
       /\ last.outcome.cause = "validation" => last.outcome.trace = <<>>
       /\ last.outcome.trace # <<>> => PassesValidation(last)

C20_Witness ==
    /\ last.op = "encrypt"
    /\ last.backend = "node"
    /\ Len(last.data) > 0
    /\ Len(last.key) = 16
    /\ last.outcome.cause = "validation"
    /\ last.outcome.trace = <<>>

-----------------------------------------------------------------------------
(* sanitizeErrorMessage on its own: the values handed to it are Error objects *)
(* and non-Error values whose text is put together from a start, a word and   *)
(* an ending, so that the three words occur in every casing, across the seam  *)
(* of two pieces, inside longer words, and not at all                         *)

MessageStarts == { <<>>, <<"b", "a", "d", " ">>, <<"k", "e">>, <<"S", "E", "C">> }
MessageWords ==
    { <<>>,
      <<"k", "e", "y">>, <<"K", "E", "Y">>, <<"K", "e", "y">>, <<"y">>, <<"k", "e">>,
      <<"p", "a", "s", "s", "w", "o", "r", "d">>, <<"P", "a", "s", "s", "W", "o", "r", "d">>,
      <<"p", "a", "s", "s">>,
      <<"s", "e", "c", "r", "e", "t">>, <<"R", "E", "T">>, <<"r", "e", "t">>,
      <<"d", "a", "t", "a">>, <<"t", "o", "k", "e", "n">> }
MessageEndings == { <<>>, <<"s">>, <<" ", "1", "2">> }

SanitizeInputs ==
    { Thrown(isError, name, start \o word \o ending) :
        isError \in BOOLEAN, name \in {"Error", "TypeError"},
        start \in MessageStarts, word \in MessageWords, ending \in MessageEndings }

SanitizeCall(error, message) == [message |-> message, error |-> error, op |-> "sanitize"]

Sanitize(error) ==
    /\ last' = SanitizeCall(error, sanitizeErrorMessage(error))
    /\ UNCHANGED <<wire, derived>>

SanitizeCalls == \E error \in SanitizeInputs : Sanitize(error)

SpecSanitize == Init /\ [][SanitizeCalls]_vars

\* the three words, and the test "the lower-cased text contains one of them"
SensitiveWords ==
    { <<"k", "e", "y">>, <<"p", "a", "s", "s", "w", "o", "r", "d">>,
      <<"s", "e", "c", "r", "e", "t">> }
NamesSensitiveWord(text) ==
    \E word \in SensitiveWords : \E i \in 1..Len(text) :
        /\ i + Len(word) - 1 <= Len(text)
        /\ SubSeq(ToLowerCase(text), i, i + Len(word) - 1) = word

\* C14: sanitizeErrorMessage(e) is 'Cryptographic operation failed' when e is an
\* Error whose lower-cased message contains 'key', 'password' or 'secret', is
\* e.message unchanged when e is an Error whose message contains none of them,
\* and is 'Unknown cryptographic error' for every value that is not an Error.
C14_SanitizeErrorMessage ==
    last.op = "sanitize"
    => /\ (last.error.isError /\ NamesSensitiveWord(last.error.message))
              => last.message = MsgOperationFailed
       /\ (last.error.isError /\ ~NamesSensitiveWord(last.error.message))
              => last.message = last.error.message
       /\ ~last.error.isError => last.message = MsgUnknownError

C14_Witness ==
    /\ last.op = "sanitize"
    /\ last.error.isError
    /\ last.error.message = <<"b", "a", "d", " ">> \o <<"P", "a", "s", "s", "W", "o", "r", "d">> \o <<"s">>
    /\ last.message = MsgOperationFailed

-----------------------------------------------------------------------------
(* The factory (src/services/crypto-factory.ts) and the globals it probes.     *)
(* A host gives each global and each member the factory reads one of these     *)
(* shapes: "absent" (not declared, or undefined), "null", "number" (a value    *)
(* that is neither an object nor a function), "string", "function", "object",  *)
(* or "throws" (an accessor that throws when it is read).                      *)

MsgNodeNotDetected == \* "Node.js environment not detected"
    <<"N", "o", "d", "e", ".", "j", "s", " ", "e", "n", "v", "i", "r", "o", "n", "m", "e", "n", "t", " ", "n", "o", "t", " ", "d", "e", "t", "e", "c", "t", "e", "d">>
MsgWebCryptoUnavailable == \* "WebCrypto API not available in this environment"
    <<"W", "e", "b", "C", "r", "y", "p", "t", "o", " ", "A", "P", "I", " ", "n", "o", "t", " ", "a", "v", "a", "i", "l", "a", "b", "l", "e", " ", "i", "n", " ", "t", "h", "i", "s", " ", "e", "n", "v", "i", "r", "o", "n", "m", "e", "n", "t">>
MsgNoCrypto == \* "No suitable crypto implementation available"
    <<"N", "o", " ", "s", "u", "i", "t", "a", "b", "l", "e", " ", "c", "r", "y", "p", "t", "o", " ", "i", "m", "p", "l", "e", "m", "e", "n", "t", "a", "t", "i", "o", "n", " ", "a", "v", "a", "i", "l", "a", "b", "l", "e">>
MsgUnknownEnvironment == \* "Unknown environment: "
    <<"U", "n", "k", "n", "o", "w", "n", " ", "e", "n", "v", "i", "r", "o", "n", "m", "e", "n", "t", ":", " ">>
MsgUnknownLevel == \* "Unknown performance level: "
    <<"U", "n", "k", "n", "o", "w", "n", " ", "p", "e", "r", "f", "o", "r", "m", "a", "n", "c", "e", " ", "l", "e", "v", "e", "l", ":", " ">>
MsgCannotRead == \* "Cannot read properties of null"
    <<"C", "a", "n", "n", "o", "t", " ", "r", "e", "a", "d", " ", "p", "r", "o", "p", "e", "r", "t", "i", "e", "s", " ", "o", "f", " ", "n", "u", "l", "l">>
MsgAccessor == \* "accessor failed"
    <<"a", "c", "c", "e", "s", "s", "o", "r", " ", "f", "a", "i", "l", "e", "d">>

\* String(tag) of the tags outside the two unions
TagText(tag) ==
    IF tag = "mobile" THEN <<"m", "o", "b", "i", "l", "e">>
    ELSE IF tag = "ultra" THEN <<"u", "l", "t", "r", "a">>
    ELSE <<>>

Host(process, versions, node, crypto, subtle, getRandomValues) ==
    [node |-> node, getRandomValues |-> getRandomValues, process |-> process,
     versions |-> versions, crypto |-> crypto, subtle |-> subtle]

\* the typeof operator
TypeOf(shape) ==
    IF shape = "absent" THEN "undefined"
    ELSE IF shape = "null" THEN "object"
    ELSE shape

\* base.member: reading a member of null or undefined throws a TypeError, a
\* number has no such member, an object gives the member or its accessor throws
MemberThrows(base, member) ==
    \/ base \in {"absent", "null"}
    \/ base = "object" /\ member = "throws"
MemberError(base) ==
    IF base \in {"absent", "null"}
    THEN Thrown(TRUE, "TypeError", MsgCannotRead)
    ELSE Thrown(TRUE, "Error", MsgAccessor)
Member(base, member) == IF base = "object" THEN member ELSE "absent"

\* how a probe ends: with a boolean, or by throwing; reads lists the globals
\* it evaluated
ProbeValue(value, reads) == [error |-> NoError, threw |-> FALSE, value |-> value, reads |-> reads]
ProbeThrow(error, reads) == [error |-> error, threw |-> TRUE, value |-> FALSE, reads |-> reads]

isWebCryptoAvailable(host) ==
    LET reads == <<"crypto">> IN
    IF host.crypto = "throws" THEN ProbeThrow(MemberError("object"), reads)
    ELSE IF TypeOf(host.crypto) = "undefined" THEN ProbeValue(FALSE, reads)
    ELSE IF MemberThrows(host.crypto, host.subtle)
         THEN ProbeThrow(MemberError(host.crypto), reads)
    ELSE IF TypeOf(Member(host.crypto, host.subtle)) = "undefined"
         THEN ProbeValue(FALSE, reads)
    ELSE IF MemberThrows(host.crypto, host.getRandomValues)
         THEN ProbeThrow(MemberError(host.crypto), reads)
    ELSE ProbeValue(TypeOf(Member(host.crypto, host.getRandomValues)) # "undefined", reads)

\* the body of the try block of isNodeEnvironment
NodeEnvironmentTry(host) ==
    LET reads == <<"process">>
        versions == Member(host.process, host.versions)
    IN
    IF host.process = "throws" THEN ProbeThrow(MemberError("object"), reads)
    ELSE IF TypeOf(host.process) = "undefined" THEN ProbeValue(FALSE, reads)
    ELSE IF MemberThrows(host.process, host.versions)
         THEN ProbeThrow(MemberError(host.process), reads)
    ELSE IF TypeOf(versions) # "object" THEN ProbeValue(FALSE, reads)
    ELSE IF versions = "null" THEN ProbeValue(FALSE, reads)
    ELSE IF MemberThrows(versions, host.node)
         THEN ProbeThrow(MemberError(versions), reads)
    ELSE ProbeValue(TypeOf(Member(versions, host.node)) = "string", reads)

isNodeEnvironment(host) ==
    LET r == NodeEnvironmentTry(host)
    IN IF r.threw THEN ProbeValue(FALSE, r.reads) ELSE r

\* the service a factory method returns, named by its class; trace lists the
\* globals the method's probes evaluated
Service(class, reads) == Return(class, NoBytes, NoEnc, reads)

createForEnvironment(env, host) ==
    IF env = "node"
    THEN LET n == isNodeEnvironment(host)
         IN IF ~n.value
            THEN Raise(createCryptoError("initialization", "ENVIRONMENT_MISMATCH",
                                         MsgNodeNotDetected), n.reads, "validation")
            ELSE Service("NodeCryptoService", n.reads)
    ELSE IF env \in {"browser", "worker"}
    THEN LET w == isWebCryptoAvailable(host)
         IN IF w.threw THEN Raise(w.error, w.reads, "host")
            ELSE IF ~w.value
            THEN Raise(createCryptoError("initialization", "WEBCRYPTO_UNAVAILABLE",
                                         MsgWebCryptoUnavailable), w.reads, "validation")
            ELSE Service("WebCryptoService", w.reads)
    ELSE Raise(createCryptoError("initialization", "UNKNOWN_ENVIRONMENT",
                                 MsgUnknownEnvironment \o TagText(env)), <<>>, "validation")

createForPerformance(level, host) ==
    LET n == isNodeEnvironment(host)
        w == isWebCryptoAvailable(host)
        none == createCryptoError("initialization", "NO_CRYPTO_AVAILABLE", MsgNoCrypto)
    IN
    IF level = "high"
    THEN IF n.value THEN Service("NodeCryptoService", n.reads)
         ELSE IF w.threw THEN Raise(w.error, n.reads \o w.reads, "host")
         ELSE IF w.value THEN Service("WebCryptoService", n.reads \o w.reads)
         ELSE Raise(none, n.reads \o w.reads, "validation")
    ELSE IF level \in {"medium", "low"}
    THEN IF w.threw THEN Raise(w.error, w.reads, "host")
         ELSE IF w.value THEN Service("WebCryptoService", w.reads)
         ELSE IF n.value THEN Service("NodeCryptoService", w.reads \o n.reads)
         ELSE Raise(none, w.reads \o n.reads, "validation")
    ELSE Raise(createCryptoError("initialization", "UNKNOWN_PERFORMANCE_LEVEL",
                                 MsgUnknownLevel \o TagText(level)), <<>>, "validation")

\* the hosts: every shape of process, process.versions, process.versions.node,
\* crypto, crypto.subtle and crypto.getRandomValues; a member is given a shape
\* only where the value that holds it is an object
Shapes == {"absent", "null", "number", "throws"}
ProcessShapes ==
    {<<p, "absent", "absent">> : p \in Shapes}
    \cup {<<"object", v, "absent">> : v \in Shapes}
    \cup {<<"object", "object", n>> : n \in {"absent", "string", "number", "throws"}}
CryptoShapes ==
    {<<c, "absent", "absent">> : c \in Shapes}
    \cup {<<"object", s, g>> : s \in {"absent", "null", "object", "throws"},
                               g \in {"absent", "function", "number", "throws"}}
Hosts ==
    {Host(p[1], p[2], p[3], c[1], c[2], c[3]) : p \in ProcessShapes, c \in CryptoShapes}

EnvironmentTags == {"node", "browser", "worker", "mobile"}
PerformanceLevels == {"high", "medium", "low", "ultra"}

FactoryCall(op, tag, host, outcome) ==
    [host |-> host, op |-> op, outcome |-> outcome, tag |-> tag]

CreateForEnvironment(env, host) ==
    /\ last' = FactoryCall("createForEnvironment", env, host,
                           Settle(FALSE, createForEnvironment(env, host)))
    /\ UNCHANGED <<wire, derived>>

CreateForPerformance(level, host) ==
    /\ last' = FactoryCall("createForPerformance", level, host,
                           Settle(FALSE, createForPerformance(level, host)))
    /\ UNCHANGED <<wire, derived>>

CreateForEnvironmentCalls ==
    \E env \in EnvironmentTags, host \in Hosts : CreateForEnvironment(env, host)
CreateForPerformanceCalls ==
    \E level \in PerformanceLevels, host \in Hosts : CreateForPerformance(level, host)

FactoryNext == CreateForEnvironmentCalls \/ CreateForPerformanceCalls
SpecFactory == Init /\ [][FactoryNext]_vars

FactoryOps == {"createForEnvironment", "createForPerformance"}
FactoryCodes ==
    {"ENVIRONMENT_MISMATCH", "WEBCRYPTO_UNAVAILABLE", "UNKNOWN_ENVIRONMENT",
     "NO_CRYPTO_AVAILABLE", "UNKNOWN_PERFORMANCE_LEVEL"}

\* process.versions.node is a string
NodeDetected(host) ==
    host.process = "object" /\ host.versions = "object" /\ host.node = "string"
\* the WebCrypto probe answers true
WebDetected(host) == isWebCryptoAvailable(host).value

Consulted(out, global) == \E i \in 1..Len(out.trace) : out.trace[i] = global

\* C16: createForEnvironment('node') returns a NodeCryptoService if
\* process.versions.node is a string and raises initialization/ENVIRONMENT_MISMATCH
\* otherwise; 'browser' and 'worker' alike return a WebCryptoService if the
\* WebCrypto surface is detected and raise initialization/WEBCRYPTO_UNAVAILABLE
\* otherwise; any other tag raises initialization/UNKNOWN_ENVIRONMENT; the
\* capability the tag does not name is never consulted.
C16_CreateForEnvironment ==
    last.op = "createForEnvironment"
    => /\ last.tag = "node"
          => /\ IF NodeDetected(last.host)
                THEN Resolved(last.outcome, "NodeCryptoService")
                ELSE RaisedAs(last.outcome, "initialization", {"ENVIRONMENT_MISMATCH"})
             /\ ~Consulted(last.outcome, "crypto")
       /\ last.tag \in {"browser", "worker"}
          => /\ IF WebDetected(last.host)
                THEN Resolved(last.outcome, "WebCryptoService")
                ELSE RaisedAs(last.outcome, "initialization", {"WEBCRYPTO_UNAVAILABLE"})
             /\ ~Consulted(last.outcome, "process")
       /\ last.tag \notin {"node", "browser", "worker"}
          => /\ RaisedAs(last.outcome, "initialization", {"UNKNOWN_ENVIRONMENT"})
             /\ last.outcome.trace = <<>>

\* C17: createForPerformance('high') returns NodeCryptoService if the Node
\* runtime is detected, else WebCryptoService if WebCrypto is detected, else
\* raises initialization/NO_CRYPTO_AVAILABLE; 'medium' and 'low' alike return
\* WebCryptoService if WebCrypto is detected, else NodeCryptoService if the Node
\* runtime is detected, else raise NO_CRYPTO_AVAILABLE; any other tag raises
\* initialization/UNKNOWN_PERFORMANCE_LEVEL; so a recognized level succeeds
\* exactly when at least one capability is detected.
C17_CreateForPerformance ==
    last.op = "createForPerformance"
    => LET node == NodeDetected(last.host)
           web  == WebDetected(last.host)
           none == RaisedAs(last.outcome, "initialization", {"NO_CRYPTO_AVAILABLE"})
       IN /\ last.tag = "high"
             => IF node THEN Resolved(last.outcome, "NodeCryptoService")
                ELSE IF web THEN Resolved(last.outcome, "WebCryptoService")
                ELSE none
          /\ last.tag \in {"medium", "low"}
             => IF web THEN Resolved(last.outcome, "WebCryptoService")
                ELSE IF node THEN Resolved(last.outcome, "NodeCryptoService")
                ELSE none
          /\ last.tag \notin {"high", "medium", "low"}
             => RaisedAs(last.outcome, "initialization", {"UNKNOWN_PERFORMANCE_LEVEL"})
          /\ last.tag \in {"high", "medium", "low"}
             => (last.outcome.kind = "resolved" <=> (node \/ web))

\* C18: for every shape of the globals both probes return a boolean and neither
\* throws, and every error createForEnvironment or createForPerformance raises
\* is a CryptoError of category 'initialization'.
C18_DetectionNeverThrows ==
    last.op \in FactoryOps
    => /\ ~isNodeEnvironment(last.host).threw
       /\ ~isWebCryptoAvailable(last.host).threw
       /\ Raised(last.outcome)
          => RaisedAs(last.outcome, "initialization", FactoryCodes)

\* C19: the factory returns a WebCryptoService only in a host where
\* crypto.subtle is present and crypto.getRandomValues is callable; where either
\* member is defined but unusable (subtle is null, getRandomValues is not a
\* function) it returns none.
C19_WebCryptoFailsClosed ==
    (last.op \in FactoryOps /\ Resolved(last.outcome, "WebCryptoService"))
    => /\ last.host.crypto = "object"
       /\ last.host.subtle = "object"
       /\ last.host.getRandomValues = "function"

-----------------------------------------------------------------------------
(* The channel of a failure, salt length, categories, hash selection *)

\* C21: on every backend each deriveKey, encrypt and decrypt call returns a
\* promise, also when validation fails: a failure is a rejection of that promise
\* and is never thrown out of the call itself, so both backends deliver the same
\* failure through the same channel.
C21_FailuresAreRejections ==
    last.op \in {"deriveKey", "encrypt", "decrypt"}
    => last.outcome.kind \in {"resolved", "rejected"}

\* C22: deriveKey rejects with a validation error every salt shorter than 16
\* bytes, the empty salt and the short non-empty salt alike, on both backends.
C22_ShortSaltRejected ==
    (last.op = "deriveKey" /\ Len(last.salt) < 16)
    => /\ Raised(last.outcome)
       /\ last.outcome.error.impl
       /\ last.outcome.error.category = "validation"

Categories == {"validation", "key_derivation", "encryption", "initialization"}

\* the categories an operation may raise
CategoriesOf(op) ==
    CASE op = "deriveKey" -> {"validation", "key_derivation"}
      [] op = "decrypt"   -> {"validation"}
      [] op \in {"generateSalt", "generateIV"} \cup FactoryOps -> {"initialization"}
      [] OTHER            -> Categories

\* C24: every error an operation of a backend or of the factory surfaces is a
\* CryptoError (name 'CryptoError') whose category is validation,
\* key_derivation, encryption or initialization, never 'decryption', and each
\* operation raises its own categories only: deriveKey validation or
\* key_derivation, decrypt validation, generateSalt, generateIV and the factory
\* initialization.
C24_ErrorsAreCategorized ==
    (/\ last.op \in {"deriveKey", "encrypt", "decrypt", "generateSalt", "generateIV"}
                    \cup FactoryOps
     /\ Raised(last.outcome))
    => /\ last.outcome.error.impl
       /\ last.outcome.error.name = "CryptoError"
       /\ last.outcome.error.category \in Categories
       /\ last.outcome.error.category \in CategoriesOf(last.op)

\* the platform's name of a hash on a backend
PlatformHashName(backend, bits) ==
    IF backend = "node" THEN (IF bits = 512 THEN "sha512" ELSE "sha256")
    ELSE (IF bits = 512 THEN "SHA-512" ELSE "SHA-256")

\* C25: on both backends params.hashFunction = 'sha512' selects SHA-512 and
\* every other value ('sha256', undefined, an unrecognized string) selects
\* SHA-256, and no value makes deriveKey fail.
C25_HashSelection ==
    (/\ last.op = "deriveKey"
     /\ Len(last.password) > 0
     /\ Len(last.salt) > 0
     /\ last.params.iterations >= 1)
    => /\ Derived(last)
       /\ LastKdfCall.hash =
              PlatformHashName(last.backend,
                               IF last.params.hashFunction = "sha512" THEN 512 ELSE 256)
       /\ last.outcome.bytes =
              Pbkdf2Bytes(Utf8Encode(last.password), last.salt, last.params.iterations,
                          PlatformHashName("node", IF last.params.hashFunction = "sha512"
                                                   THEN 512 ELSE 256),
                          last.params.keyLength)

C25_Witness ==
    /\ Derived(last)
    /\ last.backend = "node"
    /\ last.params.hashFunction = "undefined"
    /\ LastKdfCall.hash = "sha256"

-----------------------------------------------------------------------------
(* The order of the validation checks *)

\* the rules of an operation in the order the claim gives, each with the test
\* "the call breaks it"
RulesOf(call) ==
    CASE call.op = "decrypt" ->
             << <<"INVALID_KEY_LENGTH", Len(call.key) # 32>>,
                <<"EMPTY_ENCRYPTED_DATA", Len(call.enc.data) = 0>>,
                <<"INVALID_IV_LENGTH", Len(call.enc.iv) # 12>>,
                <<"INVALID_AUTH_TAG_LENGTH", Len(call.enc.authTag) # 16>> >>
      [] call.op = "encrypt" ->
             << <<"EMPTY_DATA", Len(call.data) = 0>>,
                <<"INVALID_KEY_LENGTH", Len(call.key) # 32>> >>
      [] call.op = "deriveKey" ->
             << <<"EMPTY_PASSWORD", Len(call.password) = 0>>,
                <<"EMPTY_SALT", Len(call.salt) = 0>> >>
      [] OTHER -> <<>>

BrokenRules(call) == {i \in 1..Len(RulesOf(call)) : RulesOf(call)[i][2]}

\* C26: when an input breaks several validation rules at once, the code reported
\* is that of the first broken rule in a fixed order that both backends share:
\* decrypt INVALID_KEY_LENGTH, EMPTY_ENCRYPTED_DATA, INVALID_IV_LENGTH,
\* INVALID_AUTH_TAG_LENGTH; encrypt EMPTY_DATA, INVALID_KEY_LENGTH; deriveKey
\* EMPTY_PASSWORD, EMPTY_SALT; one error is reported per call.
C26_ValidationOrder ==
    (last.op \in {"deriveKey", "encrypt", "decrypt"} /\ BrokenRules(last) # {})
    => \E i \in BrokenRules(last) :
          /\ \A j \in BrokenRules(last) : i <= j
          /\ RaisedAs(last.outcome, "validation", {RulesOf(last)[i][1]})

C26_Witness ==
    /\ last.op = "decrypt"
    /\ last.backend = "web"
    /\ Len(last.key) = 32
    /\ BrokenRules(last) = {2, 3, 4}
    /\ last.outcome.error.code = "EMPTY_ENCRYPTED_DATA"

-----------------------------------------------------------------------------
(* The salt field of a record *)

SameButSalt ==
    /\ derived.op = "decrypt"
    /\ last.op = "decrypt"
    /\ last.key = derived.key
    /\ last.enc.data = derived.enc.data
    /\ last.enc.iv = derived.enc.iv
    /\ last.enc.authTag = derived.enc.authTag

-----------------------------------------------------------------------------
(* The combined output of the WebCrypto cipher *)

\* what crypto.subtle.encrypt returned to the last encrypt call
CombinedOutput == SubtleEncrypt(last.key, last.outcome.enc.iv, TAG_LENGTH_BITS, last.data)

\* the calls of the last operation to the function fn of the platform
CallsTo(fn) ==
    {i \in 1..Len(last.outcome.trace) : last.outcome.trace[i].fn = fn}

\* C29: WebCrypto encrypt splits the combined output c of the primitive into
\* data, all bytes of c but the last 16, and authTag, the last 16 bytes of c, so
\* data followed by authTag is c again, len(data) = len(c) - 16 and
\* len(authTag) = 16; WebCrypto decrypt hands the primitive data followed by
\* authTag.
C29_SplitAndRecombine ==
    /\ (last.op = "encrypt" /\ last.backend = "web" /\ Resolved(last.outcome, "enc"))
       => /\ Len(CombinedOutput) >= 16
          /\ Len(last.outcome.enc.data) = Len(CombinedOutput) - 16
          /\ Len(last.outcome.enc.authTag) = 16
          /\ last.outcome.enc.data \o last.outcome.enc.authTag = CombinedOutput
          /\ \A i \in 1..16 :
                last.outcome.enc.authTag[i] = CombinedOutput[Len(CombinedOutput) - 16 + i]
    /\ (last.op = "decrypt" /\ last.backend = "web")
       => \A i \in CallsTo("decrypt") :
             last.outcome.trace[i].data = last.enc.data \o last.enc.authTag

C29_Witness ==
    /\ last.op = "decrypt"
    /\ last.backend = "web"
    /\ Genuine
    /\ wire.origin = "web"
    /\ last.mutation = "none"
    /\ CallsTo("decrypt") = {2}
    /\ last.outcome.trace[2].data = wire.enc.data \o wire.enc.authTag
    /\ Len(last.outcome.trace[2].data) = MaxDataLen + 16

-----------------------------------------------------------------------------
(* The password buffer of WebCryptoService.deriveKey *)

\* C30: whenever WebCryptoService.deriveKey has encoded the password into a
\* byte buffer, that buffer holds zeros only when deriveKey settles: after a
\* successful derivation, after a failure of the key import and after a failure
\* of the bit derivation.
C30_PasswordBufferZeroed ==
    (last.op = "deriveKey" /\ last.backend = "web" /\ last.outcome.trace # <<>>)
    => LET buffer == WebPasswordBufferAtSettle(last.password, last.salt, last.env)
       IN /\ Len(buffer) = Len(Utf8Encode(last.password))
          /\ \A i \in 1..Len(buffer) : buffer[i] = 0

-----------------------------------------------------------------------------
(* Frame: what an operation writes and what it hands back *)

BackendOps == {"deriveKey", "encrypt", "decrypt", "generateSalt", "generateIV"}

HandsBackArrays(call) ==
    call.outcome.kind = "resolved" /\ call.outcome.has \in {"bytes", "enc"}

\* C28: no operation of a backend stores into a byte array the caller supplied,
\* whether it succeeds or fails, and every byte array an operation returns (the
\* derived key, the plaintext, the four fields of EncryptedData) lives in a
\* buffer of its own, shared with no argument and with no other returned field.
C28_FreshAndUntouched ==
    last.op \in BackendOps
    => LET st == StorageOf(last.backend, last.op)
       IN /\ st.written \cap ArgumentBuffers = {}
          /\ HandsBackArrays(last)
             => /\ \A i \in 1..Len(st.returned) : st.returned[i] \notin ArgumentBuffers
                /\ \A i, j \in 1..Len(st.returned) :
                      i # j => st.returned[i] # st.returned[j]
                /\ Len(st.returned) = (IF last.op = "encrypt" THEN 4 ELSE 1)

C28_Witness ==
    /\ last.op = "encrypt"
    /\ last.backend = "web"
    /\ Resolved(last.outcome, "enc")
    /\ Len(StorageOf(last.backend, last.op).returned) = 4
    /\ Len(last.outcome.enc.data) = MaxDataLen

-----------------------------------------------------------------------------
(* Calls in flight together *)

\* C23: for calls issued together on one shared instance and interleaved at
\* their suspension points, the outcome of each call is the outcome it has when
\* run alone with the same inputs and the same random draws; the iv, salt,
\* ciphertext and tag of one encrypt call are those of no other call.
C23_CallsDoNotInterfere ==
    last.op = "pool"
    => \A i \in 1..Len(last.tasks) :
          last.tasks[i].pc = "settled"
          => last.tasks[i].call.outcome =
                 AloneOutcome(last.tasks[i].call, last.tasks[i].call.env)

C23_Witness ==
    /\ last.op = "pool"
    /\ Len(last.tasks) = 2
    /\ \A i \in 1..2 :
          /\ last.tasks[i].pc = "settled"
          /\ last.tasks[i].call.op = "encrypt"
          /\ last.tasks[i].call.backend = "web"
          /\ Resolved(last.tasks[i].call.outcome, "enc")
    /\ last.tasks[1].call.data = last.tasks[2].call.data
    /\ last.tasks[1].call.outcome.enc.iv # last.tasks[2].call.outcome.enc.iv

====
